---- MODULE Spec2Model ----
(***************************************************************************)
(* Model of the support-ticket RAG pipeline (src/src/rag): query           *)
(* rewriting, per-query retrieval with reranking and quality evaluation,   *)
(* cross-query aggregation, answer generation, action inference, response  *)
(* validation and the safety override of resolve_ticket.                   *)
(*                                                                         *)
(* Text is a sequence of one-character strings; a character outside        *)
(* printable ASCII, tab, line feed, form feed and carriage return is the    *)
(* element "U+" followed by its code point (the bullet is "U+2022").        *)
(* Scores and similarities are binary floating-point numbers: the integer  *)
(* s stands for the double s / 8192 (4.0 is 32768, 0.5 is 4096), on which   *)
(* sums, differences and comparisons are exact.  Values rounded to 3       *)
(* decimals are in units of 1/1000.                                        *)
(***************************************************************************)
EXTENDS Integers, Sequences, FiniteSets, TLC

VARIABLES
    pc,          \* position of the running call
    ticket,      \* ticket_text given to resolve_ticket / rewrite_ticket
    rewritten,   \* the list returned by rewrite_ticket
    queries,     \* resolve_ticket: queries
    per_query,   \* (docs, eval_metrics) returned by retrieve_documents, per query
    all_docs,    \* resolve_ticket: all_docs
    best_eval,   \* resolve_ticket: best_eval
    dedup,       \* resolve_ticket: dedup.values()
    final_docs,  \* resolve_ticket: final_docs
    generated,   \* the dict returned by generate_answer, before the override
    raw_output,  \* generate_answer: raw, what the LLM returned to the generation prompt
    decision,    \* generate_answer: decision, the dict returned by infer_action
    result,      \* the dict returned by resolve_ticket
    error,       \* the exception that left the call, or "none"
    calls,       \* collaborator calls and stage events, in order
    fn_arg,      \* argument of a function applied on its own
    fn_ret       \* its return value

vars == <<pc, ticket, rewritten, queries, per_query, all_docs, best_eval, dedup,
          final_docs, generated, raw_output, decision, result, error, calls,
          fn_arg, fn_ret>>

pipeline_vars == <<rewritten, queries, per_query, all_docs, best_eval, dedup,
                   final_docs, generated, raw_output, decision, result, error,
                   calls>>

\* ------------------------------------------------------------------ text

\* the characters str.strip() removes and \s matches: those with
\* str.isspace() true
Whitespace ==
    {"\t", "\n", "U+000B", "\f", "\r", "U+001C", "U+001D", "U+001E",
      "U+001F", " ", "U+0085", "U+00A0", "U+1680", "U+2000", "U+2001", "U+2002",
      "U+2003", "U+2004", "U+2005", "U+2006", "U+2007", "U+2008", "U+2009", "U+200A",
      "U+2028", "U+2029", "U+202F", "U+205F", "U+3000" }

\* the characters \d matches in a str pattern: the decimal digits of every
\* script (Unicode category Nd)
Digits ==
    {"0", "1", "2", "3", "4", "5", "6",
      "7", "8", "9", "U+0660", "U+0661", "U+0662", "U+0663",
      "U+0664", "U+0665", "U+0666", "U+0667", "U+0668", "U+0669", "U+06F0",
      "U+06F1", "U+06F2", "U+06F3", "U+06F4", "U+06F5", "U+06F6", "U+06F7",
      "U+06F8", "U+06F9", "U+07C0", "U+07C1", "U+07C2", "U+07C3", "U+07C4",
      "U+07C5", "U+07C6", "U+07C7", "U+07C8", "U+07C9", "U+0966", "U+0967",
      "U+0968", "U+0969", "U+096A", "U+096B", "U+096C", "U+096D", "U+096E",
      "U+096F", "U+09E6", "U+09E7", "U+09E8", "U+09E9", "U+09EA", "U+09EB",
      "U+09EC", "U+09ED", "U+09EE", "U+09EF", "U+0A66", "U+0A67", "U+0A68",
      "U+0A69", "U+0A6A", "U+0A6B", "U+0A6C", "U+0A6D", "U+0A6E", "U+0A6F",
      "U+0AE6", "U+0AE7", "U+0AE8", "U+0AE9", "U+0AEA", "U+0AEB", "U+0AEC",
      "U+0AED", "U+0AEE", "U+0AEF", "U+0B66", "U+0B67", "U+0B68", "U+0B69",
      "U+0B6A", "U+0B6B", "U+0B6C", "U+0B6D", "U+0B6E", "U+0B6F", "U+0BE6",
      "U+0BE7", "U+0BE8", "U+0BE9", "U+0BEA", "U+0BEB", "U+0BEC", "U+0BED",
      "U+0BEE", "U+0BEF", "U+0C66", "U+0C67", "U+0C68", "U+0C69", "U+0C6A",
      "U+0C6B", "U+0C6C", "U+0C6D", "U+0C6E", "U+0C6F", "U+0CE6", "U+0CE7",
      "U+0CE8", "U+0CE9", "U+0CEA", "U+0CEB", "U+0CEC", "U+0CED", "U+0CEE",
      "U+0CEF", "U+0D66", "U+0D67", "U+0D68", "U+0D69", "U+0D6A", "U+0D6B",
      "U+0D6C", "U+0D6D", "U+0D6E", "U+0D6F", "U+0DE6", "U+0DE7", "U+0DE8",
      "U+0DE9", "U+0DEA", "U+0DEB", "U+0DEC", "U+0DED", "U+0DEE", "U+0DEF",
      "U+0E50", "U+0E51", "U+0E52", "U+0E53", "U+0E54", "U+0E55", "U+0E56",
      "U+0E57", "U+0E58", "U+0E59", "U+0ED0", "U+0ED1", "U+0ED2", "U+0ED3",
      "U+0ED4", "U+0ED5", "U+0ED6", "U+0ED7", "U+0ED8", "U+0ED9", "U+0F20",
      "U+0F21", "U+0F22", "U+0F23", "U+0F24", "U+0F25", "U+0F26", "U+0F27",
      "U+0F28", "U+0F29", "U+1040", "U+1041", "U+1042", "U+1043", "U+1044",
      "U+1045", "U+1046", "U+1047", "U+1048", "U+1049", "U+1090", "U+1091",
      "U+1092", "U+1093", "U+1094", "U+1095", "U+1096", "U+1097", "U+1098",
      "U+1099", "U+17E0", "U+17E1", "U+17E2", "U+17E3", "U+17E4", "U+17E5",
      "U+17E6", "U+17E7", "U+17E8", "U+17E9", "U+1810", "U+1811", "U+1812",
      "U+1813", "U+1814", "U+1815", "U+1816", "U+1817", "U+1818", "U+1819",
      "U+1946", "U+1947", "U+1948", "U+1949", "U+194A", "U+194B", "U+194C",
      "U+194D", "U+194E", "U+194F", "U+19D0", "U+19D1", "U+19D2", "U+19D3",
      "U+19D4", "U+19D5", "U+19D6", "U+19D7", "U+19D8", "U+19D9", "U+1A80",
      "U+1A81", "U+1A82", "U+1A83", "U+1A84", "U+1A85", "U+1A86", "U+1A87",
      "U+1A88", "U+1A89", "U+1A90", "U+1A91", "U+1A92", "U+1A93", "U+1A94",
      "U+1A95", "U+1A96", "U+1A97", "U+1A98", "U+1A99", "U+1B50", "U+1B51",
      "U+1B52", "U+1B53", "U+1B54", "U+1B55", "U+1B56", "U+1B57", "U+1B58",
      "U+1B59", "U+1BB0", "U+1BB1", "U+1BB2", "U+1BB3", "U+1BB4", "U+1BB5",
      "U+1BB6", "U+1BB7", "U+1BB8", "U+1BB9", "U+1C40", "U+1C41", "U+1C42",
      "U+1C43", "U+1C44", "U+1C45", "U+1C46", "U+1C47", "U+1C48", "U+1C49",
      "U+1C50", "U+1C51", "U+1C52", "U+1C53", "U+1C54", "U+1C55", "U+1C56",
      "U+1C57", "U+1C58", "U+1C59", "U+A620", "U+A621", "U+A622", "U+A623",
      "U+A624", "U+A625", "U+A626", "U+A627", "U+A628", "U+A629", "U+A8D0",
      "U+A8D1", "U+A8D2", "U+A8D3", "U+A8D4", "U+A8D5", "U+A8D6", "U+A8D7",
      "U+A8D8", "U+A8D9", "U+A900", "U+A901", "U+A902", "U+A903", "U+A904",
      "U+A905", "U+A906", "U+A907", "U+A908", "U+A909", "U+A9D0", "U+A9D1",
      "U+A9D2", "U+A9D3", "U+A9D4", "U+A9D5", "U+A9D6", "U+A9D7", "U+A9D8",
      "U+A9D9", "U+A9F0", "U+A9F1", "U+A9F2", "U+A9F3", "U+A9F4", "U+A9F5",
      "U+A9F6", "U+A9F7", "U+A9F8", "U+A9F9", "U+AA50", "U+AA51", "U+AA52",
      "U+AA53", "U+AA54", "U+AA55", "U+AA56", "U+AA57", "U+AA58", "U+AA59",
      "U+ABF0", "U+ABF1", "U+ABF2", "U+ABF3", "U+ABF4", "U+ABF5", "U+ABF6",
      "U+ABF7", "U+ABF8", "U+ABF9", "U+FF10", "U+FF11", "U+FF12", "U+FF13",
      "U+FF14", "U+FF15", "U+FF16", "U+FF17", "U+FF18", "U+FF19", "U+104A0",
      "U+104A1", "U+104A2", "U+104A3", "U+104A4", "U+104A5", "U+104A6", "U+104A7",
      "U+104A8", "U+104A9", "U+10D30", "U+10D31", "U+10D32", "U+10D33", "U+10D34",
      "U+10D35", "U+10D36", "U+10D37", "U+10D38", "U+10D39", "U+11066", "U+11067",
      "U+11068", "U+11069", "U+1106A", "U+1106B", "U+1106C", "U+1106D", "U+1106E",
      "U+1106F", "U+110F0", "U+110F1", "U+110F2", "U+110F3", "U+110F4", "U+110F5",
      "U+110F6", "U+110F7", "U+110F8", "U+110F9", "U+11136", "U+11137", "U+11138",
      "U+11139", "U+1113A", "U+1113B", "U+1113C", "U+1113D", "U+1113E", "U+1113F",
      "U+111D0", "U+111D1", "U+111D2", "U+111D3", "U+111D4", "U+111D5", "U+111D6",
      "U+111D7", "U+111D8", "U+111D9", "U+112F0", "U+112F1", "U+112F2", "U+112F3",
      "U+112F4", "U+112F5", "U+112F6", "U+112F7", "U+112F8", "U+112F9", "U+11450",
      "U+11451", "U+11452", "U+11453", "U+11454", "U+11455", "U+11456", "U+11457",
      "U+11458", "U+11459", "U+114D0", "U+114D1", "U+114D2", "U+114D3", "U+114D4",
      "U+114D5", "U+114D6", "U+114D7", "U+114D8", "U+114D9", "U+11650", "U+11651",
      "U+11652", "U+11653", "U+11654", "U+11655", "U+11656", "U+11657", "U+11658",
      "U+11659", "U+116C0", "U+116C1", "U+116C2", "U+116C3", "U+116C4", "U+116C5",
      "U+116C6", "U+116C7", "U+116C8", "U+116C9", "U+11730", "U+11731", "U+11732",
      "U+11733", "U+11734", "U+11735", "U+11736", "U+11737", "U+11738", "U+11739",
      "U+118E0", "U+118E1", "U+118E2", "U+118E3", "U+118E4", "U+118E5", "U+118E6",
      "U+118E7", "U+118E8", "U+118E9", "U+11950", "U+11951", "U+11952", "U+11953",
      "U+11954", "U+11955", "U+11956", "U+11957", "U+11958", "U+11959", "U+11C50",
      "U+11C51", "U+11C52", "U+11C53", "U+11C54", "U+11C55", "U+11C56", "U+11C57",
      "U+11C58", "U+11C59", "U+11D50", "U+11D51", "U+11D52", "U+11D53", "U+11D54",
      "U+11D55", "U+11D56", "U+11D57", "U+11D58", "U+11D59", "U+11DA0", "U+11DA1",
      "U+11DA2", "U+11DA3", "U+11DA4", "U+11DA5", "U+11DA6", "U+11DA7", "U+11DA8",
      "U+11DA9", "U+16A60", "U+16A61", "U+16A62", "U+16A63", "U+16A64", "U+16A65",
      "U+16A66", "U+16A67", "U+16A68", "U+16A69", "U+16AC0", "U+16AC1", "U+16AC2",
      "U+16AC3", "U+16AC4", "U+16AC5", "U+16AC6", "U+16AC7", "U+16AC8", "U+16AC9",
      "U+16B50", "U+16B51", "U+16B52", "U+16B53", "U+16B54", "U+16B55", "U+16B56",
      "U+16B57", "U+16B58", "U+16B59", "U+1D7CE", "U+1D7CF", "U+1D7D0", "U+1D7D1",
      "U+1D7D2", "U+1D7D3", "U+1D7D4", "U+1D7D5", "U+1D7D6", "U+1D7D7", "U+1D7D8",
      "U+1D7D9", "U+1D7DA", "U+1D7DB", "U+1D7DC", "U+1D7DD", "U+1D7DE", "U+1D7DF",
      "U+1D7E0", "U+1D7E1", "U+1D7E2", "U+1D7E3", "U+1D7E4", "U+1D7E5", "U+1D7E6",
      "U+1D7E7", "U+1D7E8", "U+1D7E9", "U+1D7EA", "U+1D7EB", "U+1D7EC", "U+1D7ED",
      "U+1D7EE", "U+1D7EF", "U+1D7F0", "U+1D7F1", "U+1D7F2", "U+1D7F3", "U+1D7F4",
      "U+1D7F5", "U+1D7F6", "U+1D7F7", "U+1D7F8", "U+1D7F9", "U+1D7FA", "U+1D7FB",
      "U+1D7FC", "U+1D7FD", "U+1D7FE", "U+1D7FF", "U+1E140", "U+1E141", "U+1E142",
      "U+1E143", "U+1E144", "U+1E145", "U+1E146", "U+1E147", "U+1E148", "U+1E149",
      "U+1E2F0", "U+1E2F1", "U+1E2F2", "U+1E2F3", "U+1E2F4", "U+1E2F5", "U+1E2F6",
      "U+1E2F7", "U+1E2F8", "U+1E2F9", "U+1E950", "U+1E951", "U+1E952", "U+1E953",
      "U+1E954", "U+1E955", "U+1E956", "U+1E957", "U+1E958", "U+1E959", "U+1FBF0",
      "U+1FBF1", "U+1FBF2", "U+1FBF3", "U+1FBF4", "U+1FBF5", "U+1FBF6", "U+1FBF7",
      "U+1FBF8", "U+1FBF9" }

\* the "\n" character
LineBreak == "\n"

\* the characters at which str.splitlines() cuts; "\r" followed by "\n" is
\* one boundary
LineBoundaries ==
    {"\n", "U+000B", "\f", "\r", "U+001C", "U+001D", "U+001E", "U+0085",
      "U+2028", "U+2029" }

Bullet == "U+2022"

\* str.lstrip(chars): drop the leading characters that are in chars
RECURSIVE lstrip(_, _)
lstrip(s, chars) ==
    IF s # <<>> /\ Head(s) \in chars THEN lstrip(Tail(s), chars) ELSE s

\* str.rstrip(chars)
RECURSIVE rstrip(_, _)
rstrip(s, chars) ==
    IF s # <<>> /\ s[Len(s)] \in chars
    THEN rstrip(SubSeq(s, 1, Len(s) - 1), chars)
    ELSE s

\* str.strip(): drop leading and trailing whitespace
strip(s) == rstrip(lstrip(s, Whitespace), Whitespace)

\* only the empty string taken for blank
IsBlank_EmptyOnly(s) == s = <<>>

\* not s or not s.strip()
IsBlank(s) == strip(s) = <<>>

\* str.splitlines(): no trailing empty line after a final line break
RECURSIVE splitlines(_)
splitlines(s) ==
    IF s = <<>> THEN <<>>
    ELSE IF \E i \in 1..Len(s) : s[i] \in LineBoundaries
         THEN LET i == CHOOSE k \in 1..Len(s) :
                           /\ s[k] \in LineBoundaries
                           /\ \A j \in 1..(k - 1) : s[j] \notin LineBoundaries
                  next == IF s[i] = "\r" /\ i < Len(s) /\ s[i + 1] = "\n"
                          THEN i + 2 ELSE i + 1
              IN  <<SubSeq(s, 1, i - 1)>> \o splitlines(SubSeq(s, next, Len(s)))
         ELSE <<s>>

\* "sep".join(parts)
RECURSIVE join(_, _)
join(sep, parts) ==
    IF parts = <<>> THEN <<>>
    ELSE IF Len(parts) = 1 THEN parts[1]
    ELSE parts[1] \o sep \o join(sep, Tail(parts))

\* re.sub(r"^\d+[\.\)]\s*", "", s): a leading run of digits followed by "."
\* or ")" is removed together with the whitespace after it
StripNumberPrefix(s) ==
    LET d == lstrip(s, Digits)
    IN  IF Len(d) < Len(s) /\ d # <<>> /\ Head(d) \in {".", ")"}
        THEN lstrip(Tail(d), Whitespace)
        ELSE s

\* ------------------------------------------------------------------ query_rewriter.py

MAX_QUERIES == 5

\* the line not trimmed again after its bullets are removed
CleanLine_NoRestrip(line) ==
    LET s == strip(line)
    IN  IF s = <<>> THEN <<>>
        ELSE StripNumberPrefix(lstrip(s, {"-", Bullet}))

\* the body of the loop over response.splitlines(): the cleaned line, or <<>>
\* when the line is skipped
CleanLine(line) ==
    LET s == strip(line)
    IN  IF s = <<>> THEN <<>>
        ELSE StripNumberPrefix(strip(lstrip(s, {"-", Bullet})))

RECURSIVE CleanLines(_)
CleanLines(ls) ==
    IF ls = <<>> THEN <<>>
    ELSE LET s == CleanLine(Head(ls))
         IN  (IF s # <<>> THEN <<s>> ELSE <<>>) \o CleanLines(Tail(ls))

\* a rewriter that forgets to drop repeated queries
DedupFirstSeen_KeepAll(ls, seen) == ls

\* the `seen`/`out` loop: keep the first occurrence of every string
RECURSIVE DedupFirstSeen(_, _)
DedupFirstSeen(ls, seen) ==
    IF ls = <<>> THEN <<>>
    ELSE IF Head(ls) \in seen THEN DedupFirstSeen(Tail(ls), seen)
    ELSE <<Head(ls)>> \o DedupFirstSeen(Tail(ls), seen \cup {Head(ls)})

\* lst[:n]: the first n elements, all of them when n exceeds the length; a
\* negative n counts from the end (all but the last -n elements)
Take(lst, n) ==
    LET stop == IF n < 0 THEN Len(lst) + n ELSE n
    IN  SubSeq(lst, 1, IF Len(lst) < stop THEN Len(lst) ELSE stop)

\* rewrite_ticket(ticket_text, llm_call) once llm_call has returned `response`
rewrite_ticket(response) ==
    Take(DedupFirstSeen(CleanLines(splitlines(response)), {}), MAX_QUERIES)

\* ------------------------------------------------------------------ documents

\* dict.get(key, default)
Get(d, key, default) == IF key \in DOMAIN d THEN d[key] ELSE default

\* d[key] = value on a dict
Put(d, key, value) ==
    [k \in DOMAIN d \cup {key} |-> IF k = key THEN value ELSE d[k]]

\* langchain Document(page_content, metadata)
Document(content, meta) == [page_content |-> content, metadata |-> meta]

\* A sort key: <<1, x>> for the number x, <<0, 0>> for float("-inf")
NumKey(x) == <<1, x>>
NegInf == <<0, 0>>
KeyGreater(a, b) == a[1] > b[1] \/ (a[1] = b[1] /\ a[2] > b[2])

\* sorted(..., key=..., reverse=True) on a list of <<item, key>>: the sort is
\* stable, so x goes before the first element whose key is strictly smaller
\* and after every element it ties with
RECURSIVE InsertSorted(_, _)
InsertSorted(sorted, x) ==
    IF sorted = <<>> THEN <<x>>
    ELSE IF KeyGreater(x[2], Head(sorted)[2]) THEN <<x>> \o sorted
    ELSE <<Head(sorted)>> \o InsertSorted(Tail(sorted), x)

RECURSIVE SortedDesc(_)
SortedDesc(keyed) ==
    IF keyed = <<>> THEN <<>>
    ELSE InsertSorted(SortedDesc(SubSeq(keyed, 1, Len(keyed) - 1)),
                      keyed[Len(keyed)])

RECURSIVE Sum(_)
Sum(lst) == IF lst = <<>> THEN 0 ELSE Head(lst) + Sum(Tail(lst))

\* the integer s stands for the double s / ScoreScale
ScoreScale == 2 ^ 13

RECURSIVE OddPart(_)
OddPart(n) == IF n % 2 = 0 THEN OddPart(n \div 2) ELSE n

\* 2^e mod m
RECURSIVE PowMod2(_, _)
PowMod2(e, m) == IF e = 0 THEN 1 % m ELSE (2 * PowMod2(e - 1, m)) % m

\* floor(log2(p / o)) for p, o > 0
RECURSIVE Log2Floor(_, _)
Log2Floor(p, o) ==
    IF p < o THEN Log2Floor(2 * p, o) - 1
    ELSE IF 2 * o <= p THEN Log2Floor(p, 2 * o) + 1
    ELSE 0

\* whether the double nearest to p / o lies above p / o, for p > 0 and an odd
\* o that does not divide p: the 53-bit significand is p * 2^e / o rounded to
\* the nearest integer, up when the remainder is more than half of o
DoubleAbove(p, o) ==
    LET e == 52 - Log2Floor(p, o)
        r == ((p % o) * PowMod2(e, o)) % o
    IN  2 * r > o

\* round(x, 3) in units of 1/1000, for the double x that the division of the
\* double num / ScoreScale by the integer den gives (den = 1: the double
\* itself).  round() rounds the exact value of the double: a tie of the exact
\* value goes to the even neighbour; when the quotient num / den is a decimal
\* tie that no double holds, the side on which the double lies decides
Round3(num, den) ==
    LET d == den * ScoreScale
        n == 1000 * num
        q == n \div d
        r == n % d
        o == OddPart(den)
        mag == IF num < 0 THEN -num ELSE num
    IN  IF 2 * r > d THEN q + 1
        ELSE IF 2 * r < d THEN q
        ELSE IF num % o = 0 THEN (IF q % 2 = 0 THEN q ELSE q + 1)
        ELSE IF DoubleAbove(mag, o) = (num > 0) THEN q + 1
        ELSE q

\* ------------------------------------------------------------------ retriever.py

INITIAL_K == 6
FINAL_K == 4
GOOD_TOP == 32768        \* top_score > 4.0
\* score_gap > 0.6: the double 0.6 lies strictly between 4915 / 8192 and
\* 4916 / 8192, so a gap g / 8192 exceeds it exactly when g > 4915
GOOD_GAP == 4915
PARTIAL_TOP == 24576     \* top_score > 3.0

\* zip(docs, scores)
Zip(docs, scores) ==
    [i \in 1..(IF Len(docs) < Len(scores) THEN Len(docs) ELSE Len(scores))
        |-> <<docs[i], scores[i]>>]

\* an unstable sort: candidates with equal scores come out in reverse order
RankByScore_TiesReversed(pairs) ==
    LET keyed == [i \in 1..Len(pairs) |->
                    <<pairs[Len(pairs) + 1 - i],
                      NumKey(pairs[Len(pairs) + 1 - i][2])>>]
        srt == SortedDesc(keyed)
    IN  [i \in 1..Len(srt) |-> srt[i][1]]

\* sorted(zip(docs, scores), key=lambda x: x[1], reverse=True)
RankByScore(pairs) ==
    LET keyed == [i \in 1..Len(pairs) |-> <<pairs[i], NumKey(pairs[i][2])>>]
        srt == SortedDesc(keyed)
    IN  [i \in 1..Len(srt) |-> srt[i][1]]

\* the candidates cut to top_k in the order the vector store gave them
rerank_documents_Unsorted(docs, scores, top_k) ==
    IF docs = <<>> THEN <<<<>>, <<>>>>
    ELSE LET top_ranked == Take(Zip(docs, scores), top_k)
         IN  << [i \in 1..Len(top_ranked) |->
                    [top_ranked[i][1] EXCEPT
                        !.metadata = Put(@, "relevance_score", top_ranked[i][2])]],
                [i \in 1..Len(top_ranked) |-> top_ranked[i][2]] >>

\* _rerank_documents(query, docs, top_k) once RERANKER.predict has returned
\* `scores`, one per candidate: <<top_docs, top_scores>>
rerank_documents(docs, scores, top_k) ==
    IF docs = <<>> THEN <<<<>>, <<>>>>
    ELSE LET ranked == RankByScore(Zip(docs, scores))
             top_ranked == Take(ranked, top_k)
         IN  << [i \in 1..Len(top_ranked) |->
                    [top_ranked[i][1] EXCEPT
                        !.metadata = Put(@, "relevance_score", top_ranked[i][2])]],
                [i \in 1..Len(top_ranked) |-> top_ranked[i][2]] >>

\* the positions, in the candidate list, of the candidates in ranked order
RankedIndices(scores) ==
    LET ranked == RankByScore(Zip([i \in 1..Len(scores) |-> i], scores))
    IN  [i \in 1..Len(ranked) |-> ranked[i][1]]

\* the candidate list after _rerank_documents returned: the loop at lines
\* 86-87 writes the score into the kept Document objects themselves and
\* leaves the other candidates as they were
CandidatesAfterRerank(docs, scores, top_k) ==
    LET top == Take(RankedIndices(scores), top_k)
        kept == {top[i] : i \in 1..Len(top)}
    IN  [i \in 1..Len(docs) |->
            IF i \in kept
            THEN [docs[i] EXCEPT !.metadata = Put(@, "relevance_score", scores[i])]
            ELSE docs[i]]

\* thresholds compared with >= instead of >
QualityLabel_Inclusive(top_score, score_gap) ==
    IF top_score >= GOOD_TOP /\ score_gap >= GOOD_GAP THEN "good"
    ELSE IF top_score >= PARTIAL_TOP THEN "partially good"
    ELSE "poor"

\* the middle label written as the aggregation loop expects it
QualityLabel_Weak(top_score, score_gap) ==
    IF top_score > GOOD_TOP /\ score_gap > GOOD_GAP THEN "good"
    ELSE IF top_score > PARTIAL_TOP THEN "weak"
    ELSE "poor"

\* the quality label chosen by evaluate_retrieval
QualityLabel(top_score, score_gap) ==
    IF top_score > GOOD_TOP /\ score_gap > GOOD_GAP THEN "good"
    ELSE IF top_score > PARTIAL_TOP THEN "partially good"
    ELSE "poor"

\* evaluate_retrieval(scores, docs); categories_covered, a sorted list of
\* distinct strings, is the set of them
evaluate_retrieval(scores, docs) ==
    IF scores = <<>>
    THEN [quality |-> "poor", reason |-> "no_documents_retrieved"]
    ELSE LET top_score == scores[1]
             score_gap == IF Len(scores) > 1 THEN scores[1] - scores[2]
                          ELSE scores[1]
         IN  [quality |-> QualityLabel(top_score, score_gap),
              avg_relevance_score |-> Round3(Sum(scores), Len(scores)),
              top_relevance_score |-> Round3(top_score, 1),
              score_gap |-> Round3(score_gap, 1),
              num_results |-> Len(docs),
              categories_covered |->
                  {Get(docs[i].metadata, "category", <<"u","n","k","n","o","w","n">>)
                      : i \in 1..Len(docs)}]

\* the relevance model asked even when there is nothing to score
PredictCalls_Always(query, docs) == <<[op |-> "rerank", arg |-> query]>>

\* the calls of RERANKER.predict made by _rerank_documents(query, docs, top_k):
\* none when there is no candidate (lines 69-70), else one (line 73)
PredictCalls(query, docs) ==
    IF docs = <<>> THEN <<>> ELSE <<[op |-> "rerank", arg |-> query]>>

\* retrieve_documents(query) for a non-blank query, once the vector store
\* has returned `initial_docs` and the reranker `scores`: <<final_docs, eval_metrics>>
retrieve_documents(initial_docs, scores, final_k) ==
    LET r == rerank_documents(initial_docs, scores, final_k)
    IN  <<r[1], evaluate_retrieval(r[2], r[1])>>

\* ------------------------------------------------------------------ references.py

\* the marker written before a subsection: the source line holds the two
\* characters U+0E22 U+0E07 here (not the section sign U+00A7)
SubsectionMark == <<"U+0E22", "U+0E07">>
REFERENCE_K == 3

\* format_reference(doc)
format_reference(doc) ==
    LET category == Get(doc.metadata, "category", <<"u","n","k","n","o","w","n">>)
        source_file == Get(doc.metadata, "source_file",
                           <<"u","n","k","n","o","w","n","_","f","i","l","e">>)
        section == Get(doc.metadata, "section",
                       <<"U","n","k","n","o","w","n"," ","D","o","c">>)
        subsection == Get(doc.metadata, "subsection", <<>>)
        parts == <<category \o <<":", " ">> \o section>>
                 \o (IF subsection # <<>>
                     THEN <<SubsectionMark \o <<" ">> \o subsection>>
                     ELSE <<>>)
                 \o <<<<"f","i","l","e","=">> \o source_file>>
    IN  join(<<" ", "|", " ">>, parts)

\* the last k documents taken instead of the first k
select_top_references_LastK(docs, k) ==
    LET first == IF Len(docs) > k THEN Len(docs) - k + 1 ELSE 1
        top == SubSeq(docs, first, Len(docs))
    IN  [i \in 1..Len(top) |-> format_reference(top[i])]

\* select_top_references(docs, k)
select_top_references(docs, k) ==
    [i \in 1..Len(Take(docs, k)) |-> format_reference(docs[i])]

\* ------------------------------------------------------------------ action_classifier.py

ActionRequired ==
    {"none", "customer_action_required", "follow_up_required",
     "escalate_to_support", "escalate_to_abuse_team", "escalate_to_billing",
     "escalate_to_technical"}

\* the keys of ACTION_PROTOTYPES, in the order the dict is iterated
ACTION_PROTOTYPES ==
    <<"escalate_to_abuse_team", "escalate_to_billing", "escalate_to_technical",
      "escalate_to_support", "customer_action_required", "follow_up_required",
      "none">>

DEFAULT_THRESHOLD == 4096   \* threshold = 0.5

\* the running best replaced on an equal score too
RECURSIVE BestMatch_LastWins(_, _, _)
BestMatch_LastWins(labels, max_sims, best) ==
    IF labels = <<>> THEN best
    ELSE BestMatch_LastWins(Tail(labels), max_sims,
                   IF max_sims[Head(labels)] >= best.score
                   THEN [action |-> Head(labels), score |-> max_sims[Head(labels)]]
                   ELSE best)

\* the loop of infer_action over the labels: max_sims[label] is the largest
\* similarity of the answer to an exemplar of the label (the double max_sims[label] / 8192)
RECURSIVE BestMatch(_, _, _)
BestMatch(labels, max_sims, best) ==
    IF labels = <<>> THEN best
    ELSE BestMatch(Tail(labels), max_sims,
                   IF max_sims[Head(labels)] > best.score
                   THEN [action |-> Head(labels), score |-> max_sims[Head(labels)]]
                   ELSE best)

\* the calls of _MODEL.encode made by infer_action(answer): none for a blank
\* answer (lines 95-96), else one (line 98)
EmbedCalls(answer) ==
    IF IsBlank(answer) THEN <<>> ELSE <<[op |-> "embed", arg |-> answer]>>

\* the check for a blank answer left out
infer_action_NoBlankCheck(answer, max_sims, threshold) ==
    LET best == BestMatch(ACTION_PROTOTYPES, max_sims,
                          [action |-> "no_action", score |-> 0])
    IN  IF best.score < threshold
        THEN [action |-> "no_action", confidence |-> Round3(best.score, 1)]
        ELSE [action |-> best.action, confidence |-> Round3(best.score, 1)]

\* the running maximum started below every similarity instead of at 0.0
infer_action_FromBelow(answer, max_sims, threshold) ==
    IF IsBlank(answer) THEN [action |-> "no_action", confidence |-> 0]
    ELSE LET best == BestMatch(ACTION_PROTOTYPES, max_sims,
                               [action |-> "no_action", score |-> -2 * ScoreScale])
         IN  IF best.score < threshold
             THEN [action |-> "no_action", confidence |-> Round3(best.score, 1)]
             ELSE [action |-> best.action, confidence |-> Round3(best.score, 1)]

\* infer_action(answer, threshold); confidence in units of 1/1000
infer_action(answer, max_sims, threshold) ==
    IF IsBlank(answer) THEN [action |-> "no_action", confidence |-> 0]
    ELSE LET best == BestMatch(ACTION_PROTOTYPES, max_sims,
                               [action |-> "no_action", score |-> 0])
         IN  IF best.score < threshold
             THEN [action |-> "no_action", confidence |-> Round3(best.score, 1)]
             ELSE [action |-> best.action, confidence |-> Round3(best.score, 1)]

\* ------------------------------------------------------------------ schemas.py

ANSWER_MIN_LENGTH == 1
ANSWER_MAX_LENGTH == 5000
MAX_REFERENCES == 3

\* [r.strip() for r in refs if r and r.strip()]
RECURSIVE CleanReferences(_)
CleanReferences(refs) ==
    IF refs = <<>> THEN <<>>
    ELSE (IF IsBlank(Head(refs)) THEN <<>> ELSE <<strip(Head(refs))>>)
         \o CleanReferences(Tail(refs))

\* answer: Field(min_length=1, max_length=5000), then answer_must_not_be_blank
AnswerValid(answer) ==
    /\ Len(answer) >= ANSWER_MIN_LENGTH
    /\ Len(answer) <= ANSWER_MAX_LENGTH
    /\ ~IsBlank(answer)

\* a schema that keeps the first 3 references instead of rejecting a longer list
MCPResponse_Truncates(answer, references, action_required) ==
    IF /\ AnswerValid(answer)
       /\ action_required \in ActionRequired
    THEN [ok |-> TRUE,
          value |-> [answer |-> strip(answer),
                     references |-> Take(CleanReferences(references), MAX_REFERENCES),
                     action_required |-> action_required]]
    ELSE [ok |-> FALSE, value |-> <<>>]

\* a schema without the constraints on the answer
MCPResponse_AcceptsBlank(answer, references, action_required) ==
    IF /\ Len(CleanReferences(references)) <= MAX_REFERENCES
       /\ action_required \in ActionRequired
    THEN [ok |-> TRUE,
          value |-> [answer |-> strip(answer),
                     references |-> CleanReferences(references),
                     action_required |-> action_required]]
    ELSE [ok |-> FALSE, value |-> <<>>]

\* MCPResponse(answer=, references=, action_required=).model_dump(), or a
\* ValidationError
MCPResponse(answer, references, action_required) ==
    IF /\ AnswerValid(answer)
       /\ Len(CleanReferences(references)) <= MAX_REFERENCES
       /\ action_required \in ActionRequired
    THEN [ok |-> TRUE,
          value |-> [answer |-> strip(answer),
                     references |-> CleanReferences(references),
                     action_required |-> action_required]]
    ELSE [ok |-> FALSE, value |-> <<>>]

\* the fields of MCPResponse
ResponseFields == {"answer", "references", "action_required"}

\* MCPResponse(**candidate) for a candidate given as a mapping from field
\* names to values: extra="forbid" rejects unknown names, answer is required,
\* references defaults to [] and action_required to "none"
ValidateResponse(candidate) ==
    IF DOMAIN candidate \subseteq ResponseFields /\ "answer" \in DOMAIN candidate
    THEN MCPResponse(candidate["answer"],
                     Get(candidate, "references", <<>>),
                     Get(candidate, "action_required", "none"))
    ELSE [ok |-> FALSE, value |-> <<>>]

\* ------------------------------------------------------------------ generation.py

NO_CONTEXT ==
    <<"N","o"," ","r","e","l","e","v","a","n","t"," ","d","o","c","u","m","e",
      "n","t","a","t","i","o","n"," ","f","o","u","n","d",".">>

\* "\n\n".join(doc.page_content.strip() for doc in documents) or "No relevant ..."
Context(documents) ==
    LET joined == join(<<LineBreak, LineBreak>>,
                       [i \in 1..Len(documents) |-> strip(documents[i].page_content)])
    IN  IF joined # <<>> THEN joined ELSE NO_CONTEXT

\* MCP_GENERATION_PROMPT.format(ticket=ticket_text.strip(), context=context):
\* the two values the template is filled with
GenerationPrompt(ticket_text, documents) ==
    [ticket |-> strip(ticket_text), context |-> Context(documents)]

\* a parser that takes a missing answer for an empty one
ParseAnswer_Lenient(raw) == [ok |-> TRUE, answer |-> strip(raw.answer)]

\* json.loads(raw)["answer"].strip() inside the try: the output of the LLM is
\* raw.kind = "json_answer" when it is a JSON object whose "answer" is the
\* string raw.answer; every other kind raises inside the try
ParseAnswer(raw) ==
    IF raw.kind = "json_answer"
    THEN [ok |-> TRUE, answer |-> strip(raw.answer)]
    ELSE [ok |-> FALSE, answer |-> <<>>]

\* if action_required in ("none", "no_action"): action_required = "none"
NormalizeAction(action) ==
    IF action \in {"none", "no_action"} THEN "none" ELSE action

\* generate_answer(ticket_text, documents, llm_call) once llm_call has returned
\* `raw` and the embedding model the similarities `max_sims`
generate_answer(ticket_text, documents, raw, max_sims) ==
    IF IsBlank(ticket_text)
    THEN [error |-> "ticket_text must be non-empty", value |-> <<>>]
    ELSE LET parsed == ParseAnswer(raw)
             references == select_top_references(documents, REFERENCE_K)
             inferred == infer_action(parsed.answer, max_sims, DEFAULT_THRESHOLD)
             validated == MCPResponse(parsed.answer, references,
                                      NormalizeAction(inferred.action))
         IN  IF ~parsed.ok
             THEN [error |-> "LLM did not return valid JSON with answer",
                   value |-> <<>>]
             ELSE IF ~validated.ok
             THEN [error |-> "MCP schema validation failed", value |-> <<>>]
             ELSE [error |-> "none", value |-> validated.value]

\* the LLM asked a second time
GenerateCalls_Retry(ticket_text, documents, raw) ==
    IF IsBlank(ticket_text) THEN <<>>
    ELSE <<[op |-> "llm_call", arg |-> GenerationPrompt(ticket_text, documents)],
           [op |-> "llm_call", arg |-> GenerationPrompt(ticket_text, documents)]>>
         \o (IF ParseAnswer(raw).ok
             THEN <<[op |-> "select_top_references", arg |-> <<>>]>>
                  \o (IF IsBlank(ParseAnswer(raw).answer) THEN <<>>
                      ELSE <<[op |-> "embed", arg |-> <<>>]>>)
                  \o <<[op |-> "validate", arg |-> <<>>]>>
             ELSE <<>>)

\* the calls made by generate_answer, in order: nothing for a blank ticket
\* (lines 30-31); else llm_call with the prompt built from the ticket and the
\* context (34-45) and, when the output parses (47-51),
\* select_top_references (54), the embedding inside infer_action (55; not for a
\* blank answer) and the MCPResponse validation (63-70)
GenerateCalls(ticket_text, documents, raw) ==
    IF IsBlank(ticket_text) THEN <<>>
    ELSE <<[op |-> "llm_call", arg |-> GenerationPrompt(ticket_text, documents)]>>
         \o (IF ParseAnswer(raw).ok
             THEN <<[op |-> "select_top_references", arg |-> <<>>]>>
                  \o (IF IsBlank(ParseAnswer(raw).answer) THEN <<>>
                      ELSE <<[op |-> "embed", arg |-> <<>>]>>)
                  \o <<[op |-> "validate", arg |-> <<>>]>>
             ELSE <<>>)

\* ------------------------------------------------------------------ rag_pipeline.py

FINAL_DOCS == 4          \* global_ranked[:4]

\* the ticket added as a query whatever the rewriter returned
QueriesOrTicket_AlwaysTicket(qs, ticket_text) == qs \o <<ticket_text>>

\* `if not queries: queries = [ticket_text]`
QueriesOrTicket(qs, ticket_text) ==
    IF qs = <<>> THEN <<ticket_text>> ELSE qs

\* the first good assessment kept, later ones ignored
FoldEval_FirstGood(best, eval_metrics) ==
    IF eval_metrics.quality = "good" /\ best.quality # "good" THEN eval_metrics
    ELSE best

\* a partially good assessment taken as an improvement over a poor one
FoldEval_PartialCounts(best, eval_metrics) ==
    IF eval_metrics.quality = "good" THEN eval_metrics
    ELSE IF eval_metrics.quality = "partially good" /\ best.quality # "good"
         THEN eval_metrics
    ELSE best

\* the if/elif on eval_metrics inside the loop over the queries
FoldEval(best, eval_metrics) ==
    IF eval_metrics.quality = "good" THEN eval_metrics
    ELSE IF eval_metrics.quality = "weak" /\ best.quality # "good"
         THEN eval_metrics
    ELSE best

\* `for d in all_docs: dedup[d.page_content] = d`, then dedup.values(): a dict
\* keeps a key where it was first inserted and the value last assigned to it
RECURSIVE DictValues(_, _, _)
DictValues(docs, i, seen) ==
    IF i > Len(docs) THEN <<>>
    ELSE IF docs[i].page_content \in seen THEN DictValues(docs, i + 1, seen)
    ELSE LET last == CHOOSE k \in i..Len(docs) :
                        /\ docs[k].page_content = docs[i].page_content
                        /\ \A j \in (k + 1)..Len(docs) :
                              docs[j].page_content # docs[i].page_content
         IN  <<docs[last]>>
             \o DictValues(docs, i + 1, seen \cup {docs[i].page_content})

\* the first document of each content kept instead of the last
DedupByContent_KeepFirst(docs) ==
    LET sel == SelectSeq([i \in 1..Len(docs) |-> <<docs[i], i>>],
                         LAMBDA x : \A j \in 1..(x[2] - 1) :
                                       docs[j].page_content # x[1].page_content)
    IN  [i \in 1..Len(sel) |-> sel[i][1]]

\* each content placed in the pool where it was last seen, not first
DedupByContent_LastPosition(docs) ==
    LET sel == SelectSeq([i \in 1..Len(docs) |-> <<docs[i], i>>],
                         LAMBDA x : \A j \in (x[2] + 1)..Len(docs) :
                                       docs[j].page_content # x[1].page_content)
    IN  [i \in 1..Len(sel) |-> sel[i][1]]

DedupByContent(docs) == DictValues(docs, 1, {})

\* key=lambda d: d.metadata.get("relevance_score", float("-inf"))
RelevanceKey(d) ==
    IF "relevance_score" \in DOMAIN d.metadata
    THEN NumKey(d.metadata["relevance_score"])
    ELSE NegInf

\* the pool left in insertion order
GlobalRank_Unsorted(pool) == pool

\* sorted(dedup.values(), key=..., reverse=True)
GlobalRank(pool) ==
    LET srt == SortedDesc([i \in 1..Len(pool) |-> <<pool[i], RelevanceKey(pool[i])>>])
    IN  [i \in 1..Len(srt) |-> srt[i][1]]

\* an override that also withholds the references of a poorly grounded answer
SafetyOverride_DropsReferences(best, res) ==
    IF best.quality = "poor"
    THEN [res EXCEPT !.references = <<>>,
                     !.action_required = IF @ = "none" THEN "follow_up_required"
                                         ELSE @]
    ELSE res

\* the override left out
SafetyOverride_Skipped(best, res) == res

\* the override after generate_answer
SafetyOverride(best, res) ==
    IF best.quality = "poor" /\ res.action_required = "none"
    THEN [res EXCEPT !.action_required = "follow_up_required"]
    ELSE res

\* the three diagnostic keys added to the result
WithDiagnostics(res, qs, docs, best) ==
    ("_rewritten_queries" :> qs) @@ ("_reranked_docs" :> docs)
        @@ ("_retrieval_eval" :> best) @@ res

\* ------------------------------------------------------------------ main.py

INTERNAL_FIELDS == {"_rewritten_queries", "_reranked_docs", "_retrieval_eval"}

TICKET_MIN_LENGTH == 5
TICKET_MAX_LENGTH == 5000

\* TicketRequest: ticket_text of 5 to 5000 characters
TicketRequestValid(ticket_text) ==
    /\ Len(ticket_text) >= TICKET_MIN_LENGTH
    /\ Len(ticket_text) <= TICKET_MAX_LENGTH

\* `for field in _INTERNAL_FIELDS: result.pop(field, None)`
PopInternal(res) == [k \in DOMAIN res \ INTERNAL_FIELDS |-> res[k]]

\* result.setdefault(key, default)
SetDefault(res, key, default) ==
    IF key \in DOMAIN res THEN res ELSE Put(res, key, default)

\* the dict of resolve_ticket after lines 95-100 have worked on it in place:
\* the internal fields popped and the defaults set
EndpointResult(res) ==
    SetDefault(SetDefault(SetDefault(PopInternal(res), "answer", <<>>),
                          "references", <<>>),
               "action_required", "none")

\* the dict of resolve_ticket handed back as it is
EndpointBody_ReturnsResult(res) == res

\* what resolve_ticket_endpoint returns for the dict of resolve_ticket: the
\* three keys picked out of the dict that lines 95-100 leave
EndpointBody(res) ==
    LET filled == EndpointResult(res)
    IN  [answer |-> filled["answer"],
         references |-> filled["references"],
         action_required |-> filled["action_required"]]

\* ------------------------------------------------------------------ inputs

None == [none |-> TRUE]

Tickets == { <<>>, <<" ">>, <<"U+00A0", "\f">>, <<" ", "H", "e", "l", "p">> }

\* what the LLM may answer to the rewriting prompt
RewriteResponses ==
    { <<>>,
      <<"-", LineBreak, " ">>,
      <<"q">>,
      <<"1", ".", " ", "q", LineBreak, "-", " ", "r", LineBreak, "q">>,
      <<"a", LineBreak, "b", LineBreak, "c", LineBreak, "d", LineBreak, "e",
        LineBreak, "f">>,
      <<"a", "\r", "\n", "-", " ", "U+00A0", "q", "\f", "U+0661", ".",
        "U+3000", "r">> }

Faqs == <<"f", "a", "q", "s">>
Policies == <<"p", "o", "l">>

DocA == Document(<<"a">>, [category |-> Faqs, section |-> <<"S", "1">>,
                           source_file |-> <<"a", ".", "m", "d">>])
DocA2 == Document(<<"a">>, [category |-> Policies, section |-> <<"S", "2">>,
                            subsection |-> <<"s", "u", "b">>,
                            source_file |-> <<"p", ".", "m", "d">>])
DocB == Document(<<"b", " ">>, [category |-> Faqs, section |-> <<"S", "3">>,
                                source_file |-> <<"a", ".", "m", "d">>])
DocC == Document(<<"c">>, [section |-> <<"S", "4">>,
                           source_file |-> <<"c", ".", "m", "d">>])
DocD == Document(<<"d">>, [category |-> Policies, section |-> <<"S", "5">>,
                           subsection |-> <<"t">>,
                           source_file |-> <<"p", ".", "m", "d">>])
DocE == Document(<<"e">>, [category |-> Faqs, source_file |-> <<"e", ".", "m", "d">>])
DocF == Document(<<"f">>, <<>>)

\* what the vector store returns for a query and the reranker's score for
\* each candidate
RetrievalCases ==
    { [docs |-> <<>>, scores |-> <<>>],
      [docs |-> <<DocC>>, scores |-> <<27853>>],
      [docs |-> <<DocA, DocB>>, scores |-> <<38912, 31744>>],
      [docs |-> <<DocB, DocA2, DocC, DocD, DocE, DocF>>,
       scores |-> <<31744, 37684, 16384, 32768, 24576, 32768>>],
      [docs |-> <<DocB, DocA2, DocC, DocD, DocE, DocF>>,
       scores |-> <<8192, -4096, 23552, 24576, 20480, 22528>>],
      [docs |-> <<DocF, DocD>>, scores |-> <<32768, 32768>>] }

\* search_kwargs={"k": initial_k}: at most INITIAL_K candidates
RetrievalInputs == {inp \in RetrievalCases : Len(inp.docs) <= INITIAL_K}

\* what the LLM may answer to the generation prompt
GenerationOutputs ==
    { [kind |-> "not_json", answer |-> <<>>],
      [kind |-> "json_no_answer", answer |-> <<>>],
      [kind |-> "json_answer_not_string", answer |-> <<>>],
      [kind |-> "json_answer", answer |-> <<" ">>],
      [kind |-> "json_answer", answer |-> <<" ", "o", "k", LineBreak>>] }

\* the largest similarity of the answer to the exemplars of each label
SimNone ==
    [a \in ActionRequired |-> IF a = "none" THEN 6557 ELSE 819]
SimLow == [a \in ActionRequired |-> 2458]
SimBilling ==
    [a \in ActionRequired |-> IF a = "escalate_to_billing" THEN 7373 ELSE 1638]
Similarities == {SimNone, SimLow, SimBilling}

Event(op, arg) == [op |-> op, arg |-> arg]

\* ------------------------------------------------------------------ resolve_ticket

Init ==
    /\ pc = "start"
    /\ ticket \in Tickets
    /\ rewritten = <<>>
    /\ queries = <<>>
    /\ per_query = <<>>
    /\ all_docs = <<>>
    /\ best_eval = None
    /\ dedup = <<>>
    /\ final_docs = <<>>
    /\ generated = None
    /\ raw_output = None
    /\ decision = None
    /\ result = None
    /\ error = "none"
    /\ calls = <<>>
    /\ fn_arg = <<>>
    /\ fn_ret = <<>>

Fail(msg) ==
    /\ pc' = "failed"
    /\ error' = msg

\* rewrite_ticket raises on a blank ticket, before the LLM is called
RewriteRejects ==
    /\ pc = "start"
    /\ IsBlank(ticket)
    /\ Fail("ticket_text must be non-empty")
    /\ UNCHANGED <<ticket, rewritten, queries, per_query, all_docs, best_eval,
                   dedup, final_docs, generated, raw_output, decision,
                   result, calls, fn_arg, fn_ret>>

\* the LLM call of rewrite_ticket raises
RewriteLLMFails ==
    /\ pc = "start"
    /\ ~IsBlank(ticket)
    /\ calls' = Append(calls, Event("llm_call", strip(ticket)))
    /\ Fail("CollaboratorError")
    /\ UNCHANGED <<ticket, rewritten, queries, per_query, all_docs, best_eval,
                   dedup, final_docs, generated, raw_output, decision,
                   result, fn_arg, fn_ret>>

\* rag_pipeline.py lines 19-24
Rewrite ==
    /\ pc = "start"
    /\ ~IsBlank(ticket)
    /\ \E response \in RewriteResponses :
          /\ rewritten' = rewrite_ticket(response)
          /\ queries' = QueriesOrTicket(rewrite_ticket(response), ticket)
    /\ calls' = Append(calls, Event("llm_call", strip(ticket)))
    /\ all_docs' = <<>>
    /\ best_eval' = [quality |-> "poor"]
    /\ pc' = "retrieve"
    /\ UNCHANGED <<ticket, per_query, dedup, final_docs, generated, raw_output,
                   decision, result,
                   error, fn_arg, fn_ret>>

CurrentQuery == queries[Len(per_query) + 1]

\* one iteration of the loop over the queries (lines 26-33)
Retrieve ==
    /\ pc = "retrieve"
    /\ IF IsBlank(CurrentQuery)
       THEN /\ Fail("Query must be a non-empty string")
            /\ calls' = Append(calls, Event("retrieve_documents", CurrentQuery))
            /\ UNCHANGED <<per_query, all_docs, best_eval>>
       ELSE \E inp \in RetrievalInputs :
               LET r == retrieve_documents(inp.docs, inp.scores, FINAL_K)
               IN  /\ per_query' = Append(per_query, r)
                   /\ all_docs' = all_docs \o r[1]
                   /\ best_eval' = FoldEval(best_eval, r[2])
                   /\ calls' = calls
                         \o <<Event("retrieve_documents", CurrentQuery),
                              Event("search", strip(CurrentQuery))>>
                         \o PredictCalls(strip(CurrentQuery), inp.docs)
                   /\ pc' = IF Len(per_query) + 1 = Len(queries)
                            THEN "generate" ELSE "retrieve"
                   /\ error' = error
    /\ UNCHANGED <<ticket, rewritten, queries, dedup, final_docs, generated,
                   raw_output, decision, result, fn_arg, fn_ret>>

\* the vector store raises
RetrieveSearchFails ==
    /\ pc = "retrieve"
    /\ ~IsBlank(CurrentQuery)
    /\ calls' = calls \o <<Event("retrieve_documents", CurrentQuery),
                           Event("search", strip(CurrentQuery))>>
    /\ Fail("CollaboratorError")
    /\ UNCHANGED <<ticket, rewritten, queries, per_query, all_docs, best_eval,
                   dedup, final_docs, generated, raw_output, decision,
                   result, fn_arg, fn_ret>>

\* the reranker raises
RetrieveRerankFails ==
    /\ pc = "retrieve"
    /\ ~IsBlank(CurrentQuery)
    /\ \E inp \in RetrievalInputs : inp.docs # <<>>
    /\ calls' = calls \o <<Event("retrieve_documents", CurrentQuery),
                           Event("search", strip(CurrentQuery)),
                           Event("rerank", strip(CurrentQuery))>>
    /\ Fail("CollaboratorError")
    /\ UNCHANGED <<ticket, rewritten, queries, per_query, all_docs, best_eval,
                   dedup, final_docs, generated, raw_output, decision,
                   result, fn_arg, fn_ret>>

\* lines 35-46: the pool and the final documents
Aggregate ==
    /\ dedup' = DedupByContent(all_docs)
    /\ final_docs' = Take(GlobalRank(DedupByContent(all_docs)), FINAL_DOCS)

\* the LLM call of generate_answer raises
GenerateLLMFails ==
    /\ pc = "generate"
    /\ Aggregate
    /\ calls' = Append(calls, Event("llm_call",
                                    GenerationPrompt(ticket, final_docs')))
    /\ Fail("CollaboratorError")
    /\ UNCHANGED <<ticket, rewritten, queries, per_query, all_docs, best_eval,
                   generated, raw_output, decision,
                   result, fn_arg, fn_ret>>

\* the embedding model of infer_action raises
GenerateEmbedFails ==
    /\ pc = "generate"
    /\ Aggregate
    /\ \E raw \in GenerationOutputs :
          /\ ParseAnswer(raw).ok
          /\ ~IsBlank(ParseAnswer(raw).answer)
          /\ raw_output' = raw
    /\ calls' = calls \o <<Event("llm_call",
                                 GenerationPrompt(ticket, final_docs')),
                           Event("select_top_references", <<>>),
                           Event("embed", <<>>)>>
    /\ Fail("CollaboratorError")
    /\ UNCHANGED <<ticket, rewritten, queries, per_query, all_docs, best_eval,
                   generated, decision, result, fn_arg, fn_ret>>

\* lines 35-62: aggregation, generate_answer, the override and the return
Generate ==
    /\ pc = "generate"
    /\ Aggregate
    /\ \E raw \in GenerationOutputs, max_sims \in Similarities :
          LET out == generate_answer(ticket, final_docs', raw, max_sims)
              parsed == ParseAnswer(raw)
          IN  /\ raw_output' = raw
              /\ calls' = calls
                    \o GenerateCalls(ticket, final_docs', raw)
                    \o (IF out.error = "none"
                        THEN <<Event("safety_override", <<>>)>> ELSE <<>>)
              /\ decision' = IF parsed.ok
                              THEN infer_action(parsed.answer, max_sims,
                                                DEFAULT_THRESHOLD)
                              ELSE decision
              /\ IF out.error = "none"
                 THEN /\ generated' = out.value
                      /\ result' = WithDiagnostics(
                                       SafetyOverride(best_eval, out.value),
                                       queries, final_docs', best_eval)
                      /\ pc' = "done"
                      /\ error' = error
                 ELSE /\ Fail(out.error)
                      /\ UNCHANGED <<generated, result>>
    /\ UNCHANGED <<ticket, rewritten, queries, per_query, all_docs, best_eval,
                   fn_arg, fn_ret>>

Next ==
    \/ RewriteRejects
    \/ RewriteLLMFails
    \/ Rewrite
    \/ Retrieve
    \/ RetrieveSearchFails
    \/ RetrieveRerankFails
    \/ GenerateLLMFails
    \/ GenerateEmbedFails
    \/ Generate

Spec == Init /\ [][Next]_vars

\* ------------------------------------------------------------------ rewrite_ticket on its own

MaxLines == 3

\* Seq-valued inputs up to a length: all lists of at most n elements of S
RECURSIVE ListsUpTo(_, _)
ListsUpTo(S, n) ==
    IF n = 0 THEN {<<>>}
    ELSE LET shorter == ListsUpTo(S, n - 1)
         IN  shorter \cup {Append(l, x) : l \in shorter, x \in S}

\* lines the LLM may write
LineTexts ==
    { <<>>, <<" ">>, <<"-">>, <<"1", "2", ".">>,
      <<"q">>, <<" ", "q", " ">>, <<"2", ")", "q">>,
      <<"-", " ", "r">>, <<"1", ".", " ", "r">>, <<Bullet, "-", "s", "\t">>,
      <<"1", "0", " ", "q">>, <<"1", ".", "-", "q">>,
      <<"U+0661", ")", "U+00A0", "q">>, <<"q", "\r", "-", "U+2003", "r">> }

\* longer outputs: more than MAX_QUERIES distinct lines, with repetitions
LongResponses ==
    { <<"a", LineBreak, "b", LineBreak, "c", LineBreak, "d", LineBreak, "e",
        LineBreak, "f", LineBreak, "g">>,
      <<"a", LineBreak, "b", LineBreak, "-", "a", LineBreak, "c", LineBreak,
        "1", ".", "b", LineBreak, "d", LineBreak, LineBreak, "e", LineBreak,
        "f", LineBreak>> }

RewriteInputs ==
    {join(<<LineBreak>>, ls) : ls \in ListsUpTo(LineTexts, MaxLines)}
        \cup LongResponses \cup RewriteResponses

InitRewrite ==
    /\ pc = "call_rewrite_ticket"
    /\ ticket \in Tickets
    /\ fn_arg \in RewriteInputs
    /\ fn_ret = None
    /\ rewritten = <<>>
    /\ queries = <<>>
    /\ per_query = <<>>
    /\ all_docs = <<>>
    /\ best_eval = None
    /\ dedup = <<>>
    /\ final_docs = <<>>
    /\ generated = None
    /\ raw_output = None
    /\ decision = None
    /\ result = None
    /\ error = "none"
    /\ calls = <<>>

\* rewrite_ticket(ticket, llm_call) with an LLM that returns fn_arg
CallRewriteTicket ==
    /\ pc = "call_rewrite_ticket"
    /\ pc' = "return_rewrite_ticket"
    /\ IF IsBlank(ticket)
       THEN /\ fn_ret' = [error |-> "ticket_text must be non-empty", value |-> <<>>]
            /\ calls' = calls
       ELSE /\ fn_ret' = [error |-> "none", value |-> rewrite_ticket(fn_arg)]
            /\ calls' = Append(calls, Event("llm_call", strip(ticket)))
    /\ UNCHANGED <<ticket, rewritten, queries, per_query, all_docs, best_eval,
                   dedup, final_docs, generated, raw_output, decision,
                   result, error, fn_arg>>

NextRewrite == CallRewriteTicket

SpecRewrite == InitRewrite /\ [][NextRewrite]_vars

\* ------------------------------------------------------------------ evaluate_retrieval on its own

MaxScores == 3

\* reranker scores around the thresholds 3.0 (24576), 4.0 (32768) and the gap
\* 0.6 (37684 - 32768 = 4916 is the least gap above it), and two whose third
\* decimal is an exact tie (512 is 0.0625, 1536 is 0.1875)
ScoreGrid ==
    {-4096, 512, 1536, 24575, 24576, 24577, 27853, 32768, 32769, 37683, 37684}

\* the documents the scores belong to: the i-th document of the corpus
EvalCorpus == <<DocA, DocC, DocD, DocF>>

EvalInputs ==
    {[scores |-> sc, docs |-> [i \in 1..Len(sc) |-> EvalCorpus[((i - 1) % 4) + 1]]]
        : sc \in ListsUpTo(ScoreGrid, MaxScores)}

InitEval ==
    /\ pc = "call_evaluate_retrieval"
    /\ ticket = <<>>
    /\ fn_arg \in EvalInputs
    /\ fn_ret = None
    /\ rewritten = <<>>
    /\ queries = <<>>
    /\ per_query = <<>>
    /\ all_docs = <<>>
    /\ best_eval = None
    /\ dedup = <<>>
    /\ final_docs = <<>>
    /\ generated = None
    /\ raw_output = None
    /\ decision = None
    /\ result = None
    /\ error = "none"
    /\ calls = <<>>

CallEvaluateRetrieval ==
    /\ pc = "call_evaluate_retrieval"
    /\ pc' = "return_evaluate_retrieval"
    /\ fn_ret' = evaluate_retrieval(fn_arg.scores, fn_arg.docs)
    /\ UNCHANGED <<ticket, fn_arg>>
    /\ UNCHANGED pipeline_vars

NextEval == CallEvaluateRetrieval

SpecEval == InitEval /\ [][NextEval]_vars

\* ------------------------------------------------------------------ _rerank_documents and retrieve_documents on their own

MaxCandidates == 3

\* scores the reranker may give, with repetitions possible
RerankScores == {-4096, 27853, 32768, 38912}

\* the candidates returned by the vector store: the first n documents of the
\* corpus, two of them with the same content
RerankCorpus == <<DocB, DocA, DocC, DocA2, DocF, DocD, DocE>>

Queries == { <<>>, <<" ", "\t">>, <<"U+00A0">>, <<" ", "q">> }

\* top_k / final_k: FINAL_K, the count every call of the pipeline passes,
\* smaller counts, and a negative int, which the functions accept unchecked
\* and slice from the end
TopKs == {-1, 0, 1, 2, FINAL_K}

RetrieveInputs ==
    {[query |-> q, docs |-> SubSeq(RerankCorpus, 1, Len(sc)), scores |-> sc,
      top_k |-> k]
        : q \in Queries, sc \in ListsUpTo(RerankScores, MaxCandidates),
          k \in TopKs}

InitRetrieve ==
    /\ pc \in {"call_rerank_documents", "call_retrieve_documents"}
    /\ ticket = <<>>
    /\ fn_arg \in RetrieveInputs
    /\ fn_ret = None
    /\ rewritten = <<>>
    /\ queries = <<>>
    /\ per_query = <<>>
    /\ all_docs = <<>>
    /\ best_eval = None
    /\ dedup = <<>>
    /\ final_docs = <<>>
    /\ generated = None
    /\ raw_output = None
    /\ decision = None
    /\ result = None
    /\ error = "none"
    /\ calls = <<>>

\* _rerank_documents(query, docs, top_k) with a reranker that returns
\* fn_arg.scores; candidates is the list `docs` as the call leaves it
CallRerankDocuments ==
    /\ pc = "call_rerank_documents"
    /\ pc' = "return_rerank_documents"
    /\ LET r == rerank_documents(fn_arg.docs, fn_arg.scores, fn_arg.top_k)
       IN  fn_ret' = [docs |-> r[1], scores |-> r[2],
                      candidates |-> CandidatesAfterRerank(
                                         fn_arg.docs, fn_arg.scores, fn_arg.top_k)]
    /\ calls' = calls \o PredictCalls(fn_arg.query, fn_arg.docs)
    /\ UNCHANGED <<ticket, rewritten, queries, per_query, all_docs, best_eval,
                   dedup, final_docs, generated, raw_output, decision, result,
                   error, fn_arg>>

\* retrieve_documents(query, final_k=top_k) with a vector store that returns
\* fn_arg.docs and a reranker that returns fn_arg.scores
CallRetrieveDocuments ==
    /\ pc = "call_retrieve_documents"
    /\ pc' = "return_retrieve_documents"
    /\ IF IsBlank(fn_arg.query)
       THEN /\ fn_ret' = [error |-> "Query must be a non-empty string",
                          value |-> <<>>]
            /\ calls' = calls
       ELSE /\ fn_ret' = [error |-> "none",
                          value |-> retrieve_documents(fn_arg.docs, fn_arg.scores,
                                                       fn_arg.top_k)]
            /\ calls' = calls \o <<Event("search", strip(fn_arg.query))>>
                              \o PredictCalls(strip(fn_arg.query), fn_arg.docs)
    /\ UNCHANGED <<ticket, rewritten, queries, per_query, all_docs, best_eval,
                   dedup, final_docs, generated, raw_output, decision, result,
                   error, fn_arg>>

NextRetrieve ==
    \/ CallRerankDocuments
    \/ CallRetrieveDocuments

SpecRetrieve == InitRetrieve /\ [][NextRetrieve]_vars

\* ------------------------------------------------------------------ infer_action on its own

Answers == { <<>>, <<" ">>, <<" ", LineBreak, "\t">>, <<"U+3000">>,
             <<"o", "k">>, <<" ", "o", "k", " ">> }

\* cosine similarities of normalized vectors, in [-1, 1] (8192 is 1.0, 4096 is
\* 0.5, 4095 rounds to 0.5, 1536 is 0.1875, a tie of the third decimal)
SimValues == {-8192, -1642, 0, 1536, 4095, 4096, 8192}

\* the labels given a similarity of their own in a table
PeakLabels == {"escalate_to_abuse_team", "escalate_to_technical", "none"}

\* max_sims tables: one label at v1, another at v2, the rest at v3
SimTables ==
    {[a \in ActionRequired |-> IF a = l1 THEN v1 ELSE IF a = l2 THEN v2 ELSE v3]
        : l1 \in PeakLabels, l2 \in PeakLabels,
          v1 \in SimValues, v2 \in SimValues, v3 \in SimValues}

Thresholds == {-819, 0, DEFAULT_THRESHOLD, 7373, 8193}

InferInputs ==
    {[answer |-> a, max_sims |-> t, threshold |-> th]
        : a \in Answers, t \in SimTables, th \in Thresholds}

InitInfer ==
    /\ pc = "call_infer_action"
    /\ ticket = <<>>
    /\ fn_arg \in InferInputs
    /\ fn_ret = None
    /\ rewritten = <<>>
    /\ queries = <<>>
    /\ per_query = <<>>
    /\ all_docs = <<>>
    /\ best_eval = None
    /\ dedup = <<>>
    /\ final_docs = <<>>
    /\ generated = None
    /\ raw_output = None
    /\ decision = None
    /\ result = None
    /\ error = "none"
    /\ calls = <<>>

\* infer_action(answer, threshold) with an embedding model under which the
\* answer has the similarities fn_arg.max_sims to the exemplars
CallInferAction ==
    /\ pc = "call_infer_action"
    /\ pc' = "return_infer_action"
    /\ fn_ret' = infer_action(fn_arg.answer, fn_arg.max_sims, fn_arg.threshold)
    /\ calls' = calls \o EmbedCalls(fn_arg.answer)
    /\ UNCHANGED <<ticket, rewritten, queries, per_query, all_docs, best_eval,
                   dedup, final_docs, generated, raw_output, decision, result,
                   error, fn_arg>>

NextInfer == CallInferAction

SpecInfer == InitInfer /\ [][NextInfer]_vars

\* ------------------------------------------------------------------ MCPResponse on its own

MaxRefs == 4

\* a text of n characters
LongText(n) == [i \in 1..n |-> "x"]

\* answers: empty, blank, short, and around the maximum length
CandidateAnswers ==
    { <<>>, <<" ">>, <<"o", "k">>, <<" ", "o", "k", LineBreak>>,
      LongText(ANSWER_MAX_LENGTH),
      LongText(ANSWER_MAX_LENGTH + 1),
      LongText(ANSWER_MAX_LENGTH - 1) \o <<" ", " ">>,
      <<" ">> \o LongText(ANSWER_MAX_LENGTH - 1) }

RefTexts == { <<" ">>, <<" ", "r", " ">>, <<"s">> }

CandidateActions == {"none", "escalate_to_billing", "no_action", "NONE"}

NoFields == [f \in {} |-> <<>>]

\* candidates with all three fields, with or without an unknown fourth one
FullCandidates ==
    { ("answer" :> a) @@ ("references" :> refs) @@ ("action_required" :> act)
          @@ extra
        : a \in CandidateAnswers, refs \in ListsUpTo(RefTexts, MaxRefs),
          act \in CandidateActions,
          extra \in {NoFields, ("unexpected_field" :> <<"x">>)} }

\* candidates that leave fields out
PartialCandidates ==
    { NoFields,
      ("answer" :> <<"o", "k">>),
      ("answer" :> <<" ">>),
      ("references" :> <<>>) @@ ("action_required" :> "none"),
      ("answer" :> <<"o", "k">>) @@ ("action_required" :> "follow_up_required"),
      ("answer" :> <<"o", "k">>) @@ ("references" :> << <<>>, <<"s">>, <<>> >>),
      ("answer" :> <<"o", "k">>)
          @@ ("references" :> << <<"s">>, <<"s">>, <<"s">>, <<"s">> >>) }

Candidates == FullCandidates \cup PartialCandidates

InitValidate ==
    /\ pc = "call_MCPResponse"
    /\ ticket = <<>>
    /\ fn_arg \in Candidates
    /\ fn_ret = None
    /\ rewritten = <<>>
    /\ queries = <<>>
    /\ per_query = <<>>
    /\ all_docs = <<>>
    /\ best_eval = None
    /\ dedup = <<>>
    /\ final_docs = <<>>
    /\ generated = None
    /\ raw_output = None
    /\ decision = None
    /\ result = None
    /\ error = "none"
    /\ calls = <<>>

\* MCPResponse(**fn_arg): [ok, value], value being model_dump() on success
CallMCPResponse ==
    /\ pc = "call_MCPResponse"
    /\ pc' = "return_MCPResponse"
    /\ fn_ret' = ValidateResponse(fn_arg)
    /\ UNCHANGED <<ticket, fn_arg>>
    /\ UNCHANGED pipeline_vars

NextValidate == CallMCPResponse

SpecValidate == InitValidate /\ [][NextValidate]_vars

\* ------------------------------------------------------------------ generate_answer on its own

\* a document whose content is whitespace only
DocBlank == Document(<<" ", LineBreak>>, [category |-> Faqs])

\* the documents handed to generate_answer
GenerateDocs ==
    { <<>>, <<DocC>>, <<DocA, DocD, DocB, DocF>>,
      <<DocBlank>>, <<DocBlank, DocBlank>>, <<DocA, DocBlank>> }

GenerateInputs ==
    {[ticket_text |-> t, documents |-> d, raw |-> r, max_sims |-> s]
        : t \in Tickets, d \in GenerateDocs, r \in GenerationOutputs,
          s \in Similarities}

InitGenerate ==
    /\ pc = "call_generate_answer"
    /\ ticket = <<>>
    /\ fn_arg \in GenerateInputs
    /\ fn_ret = None
    /\ rewritten = <<>>
    /\ queries = <<>>
    /\ per_query = <<>>
    /\ all_docs = <<>>
    /\ best_eval = None
    /\ dedup = <<>>
    /\ final_docs = <<>>
    /\ generated = None
    /\ raw_output = None
    /\ decision = None
    /\ result = None
    /\ error = "none"
    /\ calls = <<>>

\* generate_answer(ticket_text, documents, llm_call) with an LLM that returns
\* fn_arg.raw and an embedding model that gives fn_arg.max_sims
CallGenerateAnswer ==
    /\ pc = "call_generate_answer"
    /\ pc' = "return_generate_answer"
    /\ fn_ret' = generate_answer(fn_arg.ticket_text, fn_arg.documents,
                                 fn_arg.raw, fn_arg.max_sims)
    /\ calls' = calls \o GenerateCalls(fn_arg.ticket_text, fn_arg.documents,
                                      fn_arg.raw)
    /\ UNCHANGED <<ticket, rewritten, queries, per_query, all_docs, best_eval,
                   dedup, final_docs, generated, raw_output, decision, result,
                   error, fn_arg>>

NextGenerate == CallGenerateAnswer

SpecGenerate == InitGenerate /\ [][NextGenerate]_vars

\* ------------------------------------------------------------------ every entry point

\* a call of resolve_ticket, rewrite_ticket, _rerank_documents,
\* retrieve_documents or generate_answer
InitEntry == Init \/ InitRewrite \/ InitRetrieve \/ InitGenerate

NextEntry == Next \/ NextRewrite \/ NextRetrieve \/ NextGenerate

SpecEntry == InitEntry /\ [][NextEntry]_vars

\* ------------------------------------------------------------------ the resolve-ticket endpoint

\* request bodies: the tickets above, five spaces, and one character too many
RequestTickets ==
    Tickets \cup { <<" ", " ", " ", " ", " ">>,
                   [i \in 1..(TICKET_MAX_LENGTH + 1) |-> "x"] }

InitEndpoint ==
    /\ pc = "request"
    /\ ticket \in RequestTickets
    /\ rewritten = <<>>
    /\ queries = <<>>
    /\ per_query = <<>>
    /\ all_docs = <<>>
    /\ best_eval = None
    /\ dedup = <<>>
    /\ final_docs = <<>>
    /\ generated = None
    /\ raw_output = None
    /\ decision = None
    /\ result = None
    /\ error = "none"
    /\ calls = <<>>
    /\ fn_arg = <<>>
    /\ fn_ret = None

\* the request body is validated against TicketRequest before the handler
\* runs; an invalid one is answered with 422
ReceiveRequest ==
    /\ pc = "request"
    /\ IF TicketRequestValid(ticket)
       THEN /\ pc' = "start"
            /\ fn_ret' = fn_ret
       ELSE /\ pc' = "responded"
            /\ fn_ret' = [status |-> 422]
    /\ UNCHANGED <<ticket, fn_arg>>
    /\ UNCHANGED pipeline_vars

\* lines 95-115, then the validation of the returned dict against
\* response_model=TicketResponse; `result` is the dict resolve_ticket
\* returned, changed in place by the pops and the setdefaults
EndpointReturns ==
    /\ pc = "done"
    /\ pc' = "responded"
    /\ result' = EndpointResult(result)
    /\ LET body == EndpointBody(result)
       IN  fn_ret' = IF ValidateResponse(body).ok
                     THEN [status |-> 200, body |-> ValidateResponse(body).value]
                     ELSE [status |-> 500, detail |-> "Internal Server Error"]
    /\ UNCHANGED <<ticket, fn_arg, rewritten, queries, per_query, all_docs,
                   best_eval, dedup, final_docs, generated, raw_output,
                   decision, error, calls>>

\* lines 87-92: any exception of resolve_ticket becomes the same HTTP 500
EndpointFails ==
    /\ pc = "failed"
    /\ pc' = "responded"
    /\ fn_ret' = [status |-> 500, detail |-> "Failed to resolve support ticket"]
    /\ UNCHANGED <<ticket, fn_arg>>
    /\ UNCHANGED pipeline_vars

NextEndpoint ==
    \/ ReceiveRequest
    \/ Next
    \/ EndpointReturns
    \/ EndpointFails

SpecEndpoint == InitEndpoint /\ [][NextEndpoint]_vars

\* ------------------------------------------------------------------ select_top_references on its own

MaxRefDocs == 4

CatFaqs == <<"f", "a", "q", "s">>
SecPasswordReset ==
    <<"P", "a", "s", "s", "w", "o", "r", "d", " ", "R", "e", "s", "e", "t">>
SubEmailFlow ==
    <<"E", "m", "a", "i", "l", " ", "F", "l", "o", "w">>
FileReset ==
    <<"f", "a", "q", "s", "/", "r", "e", "s", "e", "t", ".", "m", "d">>

\* documents with and without each of the metadata fields
RefDocs ==
    { Document(<<"c">>, [category |-> CatFaqs, section |-> SecPasswordReset,
                         subsection |-> SubEmailFlow, source_file |-> FileReset]),
      Document(<<"c">>, [category |-> CatFaqs, section |-> SecPasswordReset,
                         source_file |-> FileReset]),
      Document(<<"c">>, [category |-> CatFaqs, section |-> SecPasswordReset,
                         subsection |-> <<>>, source_file |-> FileReset]),
      Document(<<"d">>, [category |-> Policies, section |-> <<"S", "5">>,
                         subsection |-> <<"t">>]),
      DocE,
      DocF }

\* values of k: none, one, the default, more than any list has
\* k: REFERENCE_K, the count generate_answer passes, other counts, and a
\* negative int, which the function accepts unchecked and slices from the end
RefKs == {-1, 0, 1, REFERENCE_K, MaxRefDocs + 1}

ReferenceInputs ==
    {[docs |-> d, k |-> k] : d \in ListsUpTo(RefDocs, MaxRefDocs), k \in RefKs}

InitReferences ==
    /\ pc = "call_select_top_references"
    /\ ticket = <<>>
    /\ fn_arg \in ReferenceInputs
    /\ fn_ret = None
    /\ rewritten = <<>>
    /\ queries = <<>>
    /\ per_query = <<>>
    /\ all_docs = <<>>
    /\ best_eval = None
    /\ dedup = <<>>
    /\ final_docs = <<>>
    /\ generated = None
    /\ raw_output = None
    /\ decision = None
    /\ result = None
    /\ error = "none"
    /\ calls = <<>>

CallSelectTopReferences ==
    /\ pc = "call_select_top_references"
    /\ pc' = "return_select_top_references"
    /\ fn_ret' = select_top_references(fn_arg.docs, fn_arg.k)
    /\ UNCHANGED <<ticket, fn_arg>>
    /\ UNCHANGED pipeline_vars

NextReferences == CallSelectTopReferences

SpecReferences == InitReferences /\ [][NextReferences]_vars

\* ------------------------------------------------------------------ properties

Range(f) == {f[i] : i \in DOMAIN f}

\* the documents kept by the reranker over all queries, in query order
RECURSIVE KeptDocs(_)
KeptDocs(pq) == IF pq = <<>> THEN <<>> ELSE Head(pq)[1] \o KeptDocs(Tail(pq))

\* the per-query assessments, in query order
Verdicts == [i \in 1..Len(per_query) |-> per_query[i][2]]

GoodQueries == {i \in 1..Len(per_query) : Verdicts[i].quality = "good"}

Max(S) == CHOOSE x \in S : \A y \in S : y <= x

\* C1: when the aggregate assessment is poor and generate_answer produced
\* action_required = none, resolve_ticket returns follow_up_required.
C1_PoorForcesFollowUp ==
    (pc = "done" /\ best_eval.quality = "poor"
        /\ generated.action_required = "none")
    => result["action_required"] = "follow_up_required"

C1_Witness ==
    /\ pc = "done"
    /\ best_eval.quality = "poor"
    /\ generated.action_required = "none"
    /\ result["action_required"] = "follow_up_required"
    /\ \E i \in 1..Len(per_query) : per_query[i][1] # <<>>

\* C2: every returned result has a non-blank answer, at most 3 references,
\* each non-blank, and an action_required among the 7 enum values; the
\* classifier's no_action never appears in it.
C2_ResultWellFormed ==
    pc = "done" =>
        /\ ~IsBlank(result["answer"])
        /\ Len(result["references"]) <= 3
        /\ \A i \in 1..Len(result["references"]) :
              ~IsBlank(result["references"][i])
        /\ result["action_required"] \in ActionRequired
        /\ result["action_required"] # "no_action"
        /\ generated.action_required # "no_action"

C2_Witness ==
    /\ pc = "done"
    /\ decision.action = "no_action"
    /\ generated.action_required = "none"
    /\ result["action_required"] = "follow_up_required"
    /\ Len(result["references"]) = 3
    /\ Len(final_docs) = 4

\* C3: the aggregate assessment is the best of the per-query verdicts: good
\* if any query is good, else partially good if any is, else poor.
C3_AggregateIsBestOf ==
    pc = "done" =>
        result["_retrieval_eval"].quality =
            IF \E i \in 1..Len(per_query) : Verdicts[i].quality = "good"
            THEN "good"
            ELSE IF \E i \in 1..Len(per_query) :
                        Verdicts[i].quality = "partially good"
                 THEN "partially good"
                 ELSE "poor"

\* C4: the aggregate starts as {quality: poor}; once one or more queries are
\* assessed good, the aggregate is exactly the assessment of the last good
\* query in query order, and that is what _retrieval_eval returns.
C4_LastGoodWins ==
    /\ (pc = "retrieve" /\ per_query = <<>>) => best_eval = [quality |-> "poor"]
    /\ (pc \in {"retrieve", "generate", "done"} /\ GoodQueries # {})
          => best_eval = Verdicts[Max(GoodQueries)]
    /\ (pc = "done" /\ GoodQueries # {})
          => result["_retrieval_eval"] = Verdicts[Max(GoodQueries)]

C4_Witness ==
    /\ pc = "done"
    /\ Cardinality(GoodQueries) >= 2
    /\ \E i \in GoodQueries : Verdicts[i] # Verdicts[Max(GoodQueries)]
    /\ Max(GoodQueries) < Len(per_query)
    /\ result["_retrieval_eval"] = Verdicts[Max(GoodQueries)]

\* C5: the pool holds every kept content exactly once, and for a content kept
\* several times the pool document is its last occurrence in query order.
C5_PoolLastOccurrenceWins ==
    pc = "done" =>
        LET kept == KeptDocs(per_query)
        IN  /\ \A i \in 1..Len(kept) :
                  Cardinality({j \in 1..Len(dedup) :
                      dedup[j].page_content = kept[i].page_content}) = 1
            /\ \A j \in 1..Len(dedup) :
                  \E i \in 1..Len(kept) :
                      /\ dedup[j] = kept[i]
                      /\ \A k \in (i + 1)..Len(kept) :
                            kept[k].page_content # kept[i].page_content

C5_Witness ==
    /\ pc = "done"
    /\ LET kept == KeptDocs(per_query)
       IN  \E i, k \in 1..Len(kept) :
              /\ i < k
              /\ kept[i].page_content = kept[k].page_content
              /\ kept[i].metadata.relevance_score > kept[k].metadata.relevance_score
              /\ Get(kept[i].metadata, "category", <<>>)
                    # Get(kept[k].metadata, "category", <<>>)
              /\ \A m \in (k + 1)..Len(kept) :
                    kept[m].page_content # kept[k].page_content
              /\ \E j \in 1..Len(dedup) : dedup[j] = kept[k]

\* fin is the first 4 of pool in descending relevance_score order, documents
\* without a score after all that have one (pool holds each content once)
IsTopOfPool(fin, pool) ==
    /\ Len(fin) = (IF Len(pool) < 4 THEN Len(pool) ELSE 4)
    /\ \A i \in 1..Len(fin) : \E j \in 1..Len(pool) : fin[i] = pool[j]
    /\ \A i, j \in 1..Len(fin) :
          i < j => /\ fin[i].page_content # fin[j].page_content
                   /\ ~KeyGreater(RelevanceKey(fin[j]), RelevanceKey(fin[i]))
                   /\ "relevance_score" \in DOMAIN fin[j].metadata
                         => "relevance_score" \in DOMAIN fin[i].metadata
    /\ \A j \in 1..Len(pool) :
          (\A i \in 1..Len(fin) : fin[i] # pool[j])
              => \A i \in 1..Len(fin) :
                    /\ ~KeyGreater(RelevanceKey(pool[j]), RelevanceKey(fin[i]))
                    /\ "relevance_score" \in DOMAIN pool[j].metadata
                          => /\ "relevance_score" \in DOMAIN fin[i].metadata
                             /\ pool[j].metadata.relevance_score
                                   <= fin[i].metadata.relevance_score

MaxPool == 5

\* pools as a caller may hand them to the ranking: documents of distinct
\* content, some without a relevance_score (inside resolve_ticket every pool
\* document has one)
PoolDocs ==
    { DocF, DocC,
      [DocA EXCEPT !.metadata = Put(@, "relevance_score", 38912)],
      [DocB EXCEPT !.metadata = Put(@, "relevance_score", 31744)],
      [DocD EXCEPT !.metadata = Put(@, "relevance_score", 31744)],
      [DocE EXCEPT !.metadata = Put(@, "relevance_score", -4096)] }

Pools ==
    {p \in ListsUpTo(PoolDocs, MaxPool) :
        \A i, j \in 1..Len(p) : i < j => p[i] # p[j]}

\* C6: the final documents are the pool sorted by descending relevance_score
\* (documents without one last), cut to the first 4: no excluded pool document
\* has a strictly higher score than an included one.
C6_FinalDocsAreTopOfPool ==
    /\ pc = "done" =>
          /\ result["_reranked_docs"] = final_docs
          /\ IsTopOfPool(final_docs, dedup)
    /\ pc = "start" =>
          \A p \in Pools : IsTopOfPool(Take(GlobalRank(p), FINAL_DOCS), p)

C6_Witness ==
    /\ pc = "done"
    /\ Len(dedup) > 4
    /\ Len(final_docs) = 4
    /\ final_docs # Take(dedup, 4)
    /\ \E j \in 1..Len(dedup) :
          /\ \A i \in 1..4 : final_docs[i] # dedup[j]
          /\ j <= 4

\* the cleaned, non-empty lines of the LLM output given to rewrite_ticket
CleanedInput == CleanLines(splitlines(fn_arg))

FirstPos(lst, x) ==
    CHOOSE i \in 1..Len(lst) : lst[i] = x /\ \A j \in 1..(i - 1) : lst[j] # x

\* C7: for a non-blank ticket rewrite_ticket returns no duplicate strings, at
\* most 5 of them: the first 5 distinct cleaned lines of the LLM output, in the
\* order of their first occurrence.
C7_RewriteDistinctFirstFive ==
    (pc = "return_rewrite_ticket" /\ ~IsBlank(ticket)) =>
        LET out == fn_ret.value
            cl == CleanedInput
        IN  /\ fn_ret.error = "none"
            /\ Len(out) <= 5
            /\ \A i, j \in 1..Len(out) : i < j => out[i] # out[j]
            /\ \A i \in 1..Len(out) : out[i] \in Range(cl)
            /\ \A i, j \in 1..Len(out) :
                  i < j => FirstPos(cl, out[i]) < FirstPos(cl, out[j])
            /\ \A k \in 1..Len(cl) :
                  (Len(out) < 5 \/ k < FirstPos(cl, out[Len(out)]))
                      => cl[k] \in Range(out)

C7_Witness ==
    /\ pc = "return_rewrite_ticket"
    /\ ~IsBlank(ticket)
    /\ Len(fn_ret.value) = 5
    /\ Cardinality(Range(CleanedInput)) > 5
    /\ Len(CleanedInput) > Cardinality(Range(CleanedInput))
    /\ \E k \in 1..Len(CleanedInput) :
          /\ k < FirstPos(CleanedInput, fn_ret.value[5])
          /\ \E j \in 1..(k - 1) : CleanedInput[j] = CleanedInput[k]

\* the arguments of the calls of retrieve_documents, in call order
RetrievedQueries ==
    LET evs == SelectSeq(calls, LAMBDA e : e.op = "retrieve_documents")
    IN  [i \in 1..Len(evs) |-> evs[i].arg]

\* C8: when rewrite_ticket returns an empty list the original ticket text is
\* the sole query: retrieval is invoked exactly once, with that text, and
\* _rewritten_queries is the one-element list holding it; a non-empty list of
\* rewritten queries is used as it is.
C8_FallbackToTicket ==
    /\ (pc \in {"retrieve", "generate", "done"} /\ rewritten = <<>>)
          => queries = <<ticket>>
    /\ (pc \in {"retrieve", "generate", "done"} /\ rewritten # <<>>)
          => queries = rewritten
    /\ (pc = "done" /\ rewritten = <<>>)
          => /\ RetrievedQueries = <<ticket>>
             /\ result["_rewritten_queries"] = <<ticket>>
    /\ (pc = "done" /\ rewritten # <<>>)
          => /\ RetrievedQueries = rewritten
             /\ result["_rewritten_queries"] = rewritten

C8_Witness ==
    /\ pc = "done"
    /\ rewritten = <<>>
    /\ ticket # strip(ticket)
    /\ RetrievedQueries = <<ticket>>
    /\ result["_rewritten_queries"] = <<ticket>>

IsDescending(sc) == \A i \in 1..(Len(sc) - 1) : sc[i] >= sc[i + 1]

\* top > 4.0 and gap > 0.6, for top and gap in units of 1 / ScoreScale
AboveGoodThresholds(top, gap) ==
    top > 4 * ScoreScale /\ 5 * gap > 3 * ScoreScale

\* C9: evaluate_retrieval on a non-empty descending score list is good iff
\* top > 4.0 and gap > 0.6 on the unrounded values, else partially good iff
\* top > 3.0, else poor; an empty list gives poor / no_documents_retrieved.
C9_StrictThresholds ==
    pc = "return_evaluate_retrieval" =>
        LET sc == fn_arg.scores
            top == sc[1]
            gap == IF Len(sc) = 1 THEN sc[1] ELSE sc[1] - sc[2]
        IN  IF sc = <<>>
            THEN /\ fn_ret.quality = "poor"
                 /\ fn_ret.reason = "no_documents_retrieved"
            ELSE IsDescending(sc) =>
                 /\ fn_ret.quality = "good" <=> AboveGoodThresholds(top, gap)
                 /\ fn_ret.quality = "partially good"
                        <=> (~AboveGoodThresholds(top, gap)
                                /\ top > 3 * ScoreScale)
                 /\ fn_ret.quality = "poor"
                        <=> (~AboveGoodThresholds(top, gap)
                                /\ top <= 3 * ScoreScale)
                 /\ (top = 4 * ScoreScale \/ 5 * gap = 3 * ScoreScale)
                        => fn_ret.quality # "good"
                 /\ (Len(sc) = 1 /\ top > 4 * ScoreScale)
                        => fn_ret.quality = "good"

\* top just below 4.6 over 4.0: the gap is the largest one that does not
\* exceed 0.6 and is reported as 0.6, and the result is not good
C9_Witness ==
    /\ pc = "return_evaluate_retrieval"
    /\ fn_arg.scores = <<37683, 32768>>
    /\ fn_ret.quality = "partially good"
    /\ fn_ret.score_gap = 600

\* C10 as stated: the quality of every assessment is one of good,
\* partially_good, poor.
C10_LabelsAsStated ==
    /\ \A i \in 1..Len(per_query) :
          Verdicts[i].quality \in {"good", "partially_good", "poor"}
    /\ best_eval # None => best_eval.quality \in {"good", "partially_good", "poor"}

\* C10 amended: the quality of every assessment produced by
\* evaluate_retrieval, and of the aggregate assessment returned by
\* resolve_ticket, is one of the three strings good, partially good (with a
\* space), poor; a single score of 3.4 yields partially good.
C10_Labels ==
    /\ \A i \in 1..Len(per_query) :
          /\ Verdicts[i].quality \in {"good", "partially good", "poor"}
          /\ ("num_results" \in DOMAIN Verdicts[i]
                 /\ Verdicts[i].num_results = 1
                 /\ Verdicts[i].top_relevance_score = 3400)
                => Verdicts[i].quality = "partially good"
    /\ best_eval # None => best_eval.quality \in {"good", "partially good", "poor"}
    /\ pc = "done" =>
          result["_retrieval_eval"].quality \in {"good", "partially good", "poor"}

C10_Witness ==
    /\ pc = "done"
    /\ \E i \in 1..Len(per_query) :
          /\ Verdicts[i].quality = "partially good"
          /\ Verdicts[i].num_results = 1
          /\ Verdicts[i].top_relevance_score = 3400

\* the events of the log with the given op
CallsOf(op) == SelectSeq(calls, LAMBDA e : e.op = op)

\* _rerank_documents returned k documents and as many scores, index-aligned,
\* in non-increasing score order, candidates of equal score in their original
\* relative order; each returned document is a candidate carrying its score
\* as relevance_score, every returned document scores at least as high as
\* every dropped candidate, and the dropped candidates get no relevance_score
RerankKept(k) ==
    LET n == Len(fn_arg.docs)
    IN  /\ Len(fn_ret.docs) = k
        /\ Len(fn_ret.scores) = k
        /\ \A i \in 1..(k - 1) : fn_ret.scores[i] >= fn_ret.scores[i + 1]
        /\ \E idx \in [1..k -> 1..n] :
              /\ \A i, j \in 1..k : i < j => idx[i] # idx[j]
              /\ \A i \in 1..k :
                    /\ fn_ret.scores[i] = fn_arg.scores[idx[i]]
                    /\ fn_ret.docs[i].page_content
                          = fn_arg.docs[idx[i]].page_content
                    /\ fn_ret.docs[i].metadata
                          = Put(fn_arg.docs[idx[i]].metadata, "relevance_score",
                                fn_ret.scores[i])
                    /\ fn_ret.candidates[idx[i]] = fn_ret.docs[i]
              /\ \A i, j \in 1..k :
                    (i < j /\ fn_ret.scores[i] = fn_ret.scores[j])
                        => idx[i] < idx[j]
              /\ \A d \in (1..n) \ {idx[i] : i \in 1..k} :
                    /\ \A i \in 1..k : fn_arg.scores[d] <= fn_ret.scores[i]
                    /\ fn_ret.candidates[d] = fn_arg.docs[d]
                    /\ "relevance_score"
                          \notin DOMAIN fn_ret.candidates[d].metadata

\* C11: for non-empty candidates _rerank_documents returns min(top_k, n)
\* documents (top_k being a count of documents, zero or more) and as many
\* scores, index-aligned, in non-increasing score order, candidates of equal
\* score in their original relative order; each returned document is a
\* candidate carrying its score as relevance_score, every returned document
\* scores at least as high as every dropped candidate, and the dropped
\* candidates get no relevance_score.
C11_RerankTopK ==
    (pc = "return_rerank_documents" /\ fn_arg.docs # <<>>) =>
        LET n == Len(fn_arg.docs)
        IN  /\ RerankKept(Len(fn_ret.docs))
            /\ fn_arg.top_k >= 0 =>
                   Len(fn_ret.docs) = (IF fn_arg.top_k < n THEN fn_arg.top_k
                                       ELSE n)

\* three candidates, two of them tied, cut to two: the later of the tied
\* candidates is dropped
C11_Witness ==
    /\ pc = "return_rerank_documents"
    /\ fn_arg.scores = <<27853, 32768, 27853>>
    /\ fn_arg.top_k = 2
    /\ Len(fn_ret.docs) = 2
    /\ fn_ret.scores = <<32768, 27853>>
    /\ fn_ret.docs[2].page_content = fn_arg.docs[1].page_content
    /\ "relevance_score" \notin DOMAIN fn_ret.candidates[3].metadata

\* C12: with no candidate _rerank_documents returns two empty lists and the
\* relevance model is not invoked; retrieve_documents then returns no document
\* and the assessment {quality: poor, reason: no_documents_retrieved}.
C12_EmptyCandidates ==
    /\ (pc = "return_rerank_documents" /\ fn_arg.docs = <<>>) =>
          /\ fn_ret.docs = <<>>
          /\ fn_ret.scores = <<>>
          /\ CallsOf("rerank") = <<>>
    /\ (pc = "return_retrieve_documents" /\ ~IsBlank(fn_arg.query)
            /\ fn_arg.docs = <<>>) =>
          /\ fn_ret.error = "none"
          /\ fn_ret.value[1] = <<>>
          /\ fn_ret.value[2] = [quality |-> "poor",
                                reason |-> "no_documents_retrieved"]
          /\ CallsOf("rerank") = <<>>
          /\ Len(CallsOf("search")) = 1

C12_Witness ==
    /\ pc = "return_retrieve_documents"
    /\ ~IsBlank(fn_arg.query)
    /\ fn_arg.docs = <<>>
    /\ fn_ret.value[1] = <<>>
    /\ fn_ret.value[2].reason = "no_documents_retrieved"
    /\ calls = <<Event("search", strip(fn_arg.query))>>


\* C13: on an empty or whitespace-only answer infer_action returns exactly
\* {action: no_action, confidence: 0.0}, whatever the threshold, and the
\* embedding model is not called.
C13_BlankAnswerNoAction ==
    (pc = "return_infer_action" /\ IsBlank(fn_arg.answer)) =>
        /\ fn_ret = [action |-> "no_action", confidence |-> 0]
        /\ CallsOf("embed") = <<>>

\* a whitespace-only answer, a threshold below zero and similarities of 1.0
C13_Witness ==
    /\ pc = "return_infer_action"
    /\ fn_arg.answer = <<" ", LineBreak, "\t">>
    /\ fn_arg.threshold < 0
    /\ \A a \in ActionRequired : fn_arg.max_sims[a] = ScoreScale
    /\ fn_ret = [action |-> "no_action", confidence |-> 0]
    /\ calls = <<>>

\* the largest similarity over all 7 labels
MaxSim(max_sims) ==
    CHOOSE m \in {max_sims[a] : a \in ActionRequired} :
        \A a \in ActionRequired : max_sims[a] <= m

\* C14: for a non-blank answer, with m the largest similarity over all 7
\* labels: below the threshold the result is no_action with confidence
\* round(m, 3); otherwise it is a label whose own maximum equals m, with
\* confidence round(m, 3); also when every similarity is zero or negative.
C14_GlobalMaximum ==
    (pc = "return_infer_action" /\ ~IsBlank(fn_arg.answer)) =>
        LET m == MaxSim(fn_arg.max_sims)
        IN  /\ fn_ret.confidence = Round3(m, 1)
            /\ IF m < fn_arg.threshold
               THEN fn_ret.action = "no_action"
               ELSE /\ fn_ret.action \in ActionRequired
                    /\ fn_arg.max_sims[fn_ret.action] = m

\* C15: the confidence returned by infer_action lies in [0, 1] and is the
\* value, in thousandths, nearest to the score it reports, for every answer,
\* threshold and similarities in [-1, 1].
C15_ConfidenceInUnitInterval ==
    pc = "return_infer_action" =>
        /\ fn_ret.confidence \in 0..1000
        /\ LET m == MaxSim(fn_arg.max_sims)
               reported == IF IsBlank(fn_arg.answer) \/ m < 0 THEN 0 ELSE m
           IN  /\ 2 * (ScoreScale * fn_ret.confidence - 1000 * reported)
                     <= ScoreScale
               /\ 2 * (1000 * reported - ScoreScale * fn_ret.confidence)
                     <= ScoreScale

\* every similarity negative, the answer not blank: the confidence is 0.0
C15_Witness ==
    /\ pc = "return_infer_action"
    /\ ~IsBlank(fn_arg.answer)
    /\ \A a \in ActionRequired : fn_arg.max_sims[a] < 0
    /\ fn_arg.threshold <= 0
    /\ fn_ret.confidence = 0


\* C16: when the output of the LLM for the generation prompt is not JSON or
\* has no answer key, generate_answer raises the format error: no reference is
\* selected, no action inferred, nothing validated, and resolve_ticket returns
\* no result.
C16_FormatErrorNoPartial ==
    (raw_output # None /\ raw_output.kind # "json_answer") =>
        /\ pc = "failed"
        /\ error = "LLM did not return valid JSON with answer"
        /\ result = None
        /\ generated = None
        /\ decision = None
        /\ CallsOf("select_top_references") = <<>>
        /\ CallsOf("embed") = <<>>
        /\ CallsOf("validate") = <<>>
        /\ CallsOf("safety_override") = <<>>
        /\ calls[Len(calls)].op = "llm_call"

\* a JSON object without the answer key, after documents were retrieved
C16_Witness ==
    /\ pc = "failed"
    /\ raw_output # None
    /\ raw_output.kind = "json_no_answer"
    /\ error = "LLM did not return valid JSON with answer"
    /\ Len(final_docs) > 0
    /\ result = None


\* the entries of refs that are not blank, trimmed, in their order
TrimmedNonBlank(refs) ==
    LET kept == SelectSeq(refs, LAMBDA r : strip(r) # <<>>)
    IN  [i \in 1..Len(kept) |-> strip(kept[i])]

\* C17: MCPResponse accepts a candidate iff it has no unknown field, its
\* answer is at most 5000 characters and not blank after trimming, at most 3
\* references are left once the blank ones are dropped, and action_required
\* is one of the 7 enum values; the accepted references are the trimmed
\* non-blank entries in their order. 4 non-blank references are rejected, not
\* cut to 3, and action_required = no_action is rejected.
C17_ValidatorAcceptsExactly ==
    pc = "return_MCPResponse" =>
        LET c == fn_arg
            refs == IF "references" \in DOMAIN c THEN c["references"] ELSE <<>>
            act == IF "action_required" \in DOMAIN c
                   THEN c["action_required"] ELSE "none"
            wellformed ==
                /\ DOMAIN c \subseteq {"answer", "references", "action_required"}
                /\ "answer" \in DOMAIN c
                /\ strip(c["answer"]) # <<>>
                /\ Len(c["answer"]) <= 5000
                /\ Len(TrimmedNonBlank(refs)) <= 3
                /\ act \in {"none", "customer_action_required",
                             "follow_up_required", "escalate_to_support",
                             "escalate_to_abuse_team", "escalate_to_billing",
                             "escalate_to_technical"}
        IN  /\ fn_ret.ok <=> wellformed
            /\ fn_ret.ok =>
                  /\ fn_ret.value.references = TrimmedNonBlank(refs)
                  /\ fn_ret.value.action_required = act
            /\ Len(TrimmedNonBlank(refs)) = 4 => ~fn_ret.ok
            /\ act = "no_action" => ~fn_ret.ok

\* 4 references of which one is blank: accepted with the 3 others, trimmed
C17_Witness ==
    /\ pc = "return_MCPResponse"
    /\ DOMAIN fn_arg = {"answer", "references", "action_required"}
    /\ Len(fn_arg["answer"]) = 5000
    /\ Len(fn_arg["references"]) = 4
    /\ fn_arg["references"][2] = <<" ">>
    /\ fn_ret.ok
    /\ fn_ret.value.references = << <<"r">>, <<"s">>, <<"r">> >>


\* C18: rewrite_ticket and generate_answer given an empty or whitespace-only
\* ticket, and retrieve_documents given an empty or whitespace-only query,
\* raise their input error before any collaborator is called; resolve_ticket
\* on such a ticket calls no collaborator and returns no result.
C18_BlankInputFailsFast ==
    /\ (pc = "return_rewrite_ticket" /\ strip(ticket) = <<>>) =>
          /\ fn_ret.error = "ticket_text must be non-empty"
          /\ calls = <<>>
    /\ (pc = "return_generate_answer" /\ strip(fn_arg.ticket_text) = <<>>) =>
          /\ fn_ret.error = "ticket_text must be non-empty"
          /\ calls = <<>>
    /\ (pc = "return_retrieve_documents" /\ strip(fn_arg.query) = <<>>) =>
          /\ fn_ret.error = "Query must be a non-empty string"
          /\ calls = <<>>
    /\ (pc \in {"retrieve", "generate", "done", "failed"}
            /\ strip(ticket) = <<>>) =>
          /\ pc = "failed"
          /\ error = "ticket_text must be non-empty"
          /\ calls = <<>>
          /\ result = None

\* resolve_ticket given a ticket of one space
C18_Witness ==
    /\ pc = "failed"
    /\ ticket = <<" ">>
    /\ error = "ticket_text must be non-empty"
    /\ calls = <<>>
    /\ result = None


\* the ops of the calls of the given kinds, in call order
OpsAmong(kinds) ==
    LET evs == SelectSeq(calls, LAMBDA e : e.op \in kinds)
    IN  [i \in 1..Len(evs) |-> evs[i].op]

\* the queries resolve_ticket has to retrieve for
ExpectedQueries == IF rewritten = <<>> THEN <<ticket>> ELSE rewritten

\* C19: a successful resolve_ticket calls the LLM once for rewriting, then
\* retrieves exactly once per query, in query order and at most 5 times, then
\* calls the LLM once for the answer. When a collaborator call fails, the
\* failure leaves resolve_ticket as it is, the failed call is the last one
\* made, none was repeated, and there is no result.
C19_CallOrder ==
    /\ pc = "done" =>
          /\ OpsAmong({"llm_call", "retrieve_documents"})
                = <<"llm_call">>
                  \o [i \in 1..Len(ExpectedQueries) |-> "retrieve_documents"]
                  \o <<"llm_call">>
          /\ RetrievedQueries = ExpectedQueries
          /\ Len(RetrievedQueries) \in 1..5
          /\ Len(CallsOf("search")) = Len(RetrievedQueries)
          /\ Len(CallsOf("rerank")) <= Len(RetrievedQueries)
          /\ Len(CallsOf("embed")) <= 1
    /\ (pc = "failed" /\ error = "CollaboratorError") =>
          /\ result = None
          /\ calls[Len(calls)].op \in {"llm_call", "search", "rerank", "embed"}
          /\ LET ops == OpsAmong({"llm_call", "retrieve_documents"})
                 full == <<"llm_call">>
                         \o [i \in 1..Len(ExpectedQueries) |-> "retrieve_documents"]
                         \o <<"llm_call">>
             IN  /\ Len(ops) <= Len(full)
                 /\ ops = SubSeq(full, 1, Len(ops))
          /\ RetrievedQueries = SubSeq(ExpectedQueries, 1, Len(RetrievedQueries))
          /\ Len(CallsOf("search")) <= Len(RetrievedQueries)
          /\ Len(CallsOf("rerank")) <= Len(CallsOf("search"))
          /\ Len(CallsOf("embed")) <= 1
          /\ CallsOf("validate") = <<>>
    /\ pc = "failed" =>
          error \in {"CollaboratorError", "ticket_text must be non-empty",
                     "LLM did not return valid JSON with answer",
                     "MCP schema validation failed"}

\* five queries retrieved in order, then the answer generated
C19_Witness ==
    /\ pc = "done"
    /\ Len(rewritten) = 5
    /\ RetrievedQueries = rewritten
    /\ Len(CallsOf("llm_call")) = 2
    /\ calls[1].op = "llm_call"

\* the position of the first event with the given op in the log, 0 if none
PositionOf(op) ==
    IF \E i \in 1..Len(calls) : calls[i].op = op
    THEN CHOOSE i \in 1..Len(calls) :
            calls[i].op = op /\ \A j \in 1..(i - 1) : calls[j].op # op
    ELSE 0

\* C20: in resolve_ticket the safety override comes before the validation of
\* the response: the returned response was validated after the override, the
\* validator being the last stage to act on action_required.
C20_OverrideBeforeValidation ==
    pc = "done" =>
        /\ PositionOf("safety_override") > 0
        /\ PositionOf("validate") > PositionOf("safety_override")
        /\ calls[Len(calls)].op = "validate"


\* C21: the override touches action_required only, and only to turn none into
\* follow_up_required: the answer and references of the result are those of
\* generate_answer, which are fixed by the LLM output and the final documents
\* (not by any quality assessment), and the action is returned unchanged when
\* the aggregate quality is not poor or the generated action is not none.
C21_OverrideFrame ==
    pc = "done" =>
        /\ result["answer"] = generated.answer
        /\ result["references"] = generated.references
        /\ result["answer"] = strip(raw_output.answer)
        /\ result["references"]
              = CleanReferences(select_top_references(final_docs, 3))
        /\ DOMAIN result = {"answer", "references", "action_required",
                            "_rewritten_queries", "_reranked_docs",
                            "_retrieval_eval"}
        /\ result["action_required"] # generated.action_required
              => /\ generated.action_required = "none"
                 /\ result["action_required"] = "follow_up_required"
        /\ (best_eval.quality # "poor" \/ generated.action_required # "none")
              => result["action_required"] = generated.action_required

\* a poor aggregate with documents cited and an escalation inferred: nothing
\* is changed
C21_Witness ==
    /\ pc = "done"
    /\ best_eval.quality = "poor"
    /\ generated.action_required = "escalate_to_billing"
    /\ result["action_required"] = "escalate_to_billing"
    /\ Len(result["references"]) = 3
    /\ result["references"] = generated.references


\* C22: the response of the resolve-ticket endpoint has exactly the keys
\* answer, references and action_required, none of the diagnostic fields that
\* resolve_ticket added to its result; and when resolve_ticket fails, whatever
\* the reason, the endpoint answers with the same generic failure and no part
\* of a response.
C22_EndpointStripsInternal ==
    pc = "responded" =>
        /\ fn_ret.status = 200 =>
              /\ DOMAIN fn_ret = {"status", "body"}
              /\ DOMAIN fn_ret.body = {"answer", "references", "action_required"}
              /\ \A k \in {"_rewritten_queries", "_reranked_docs",
                            "_retrieval_eval"} : k \notin DOMAIN fn_ret.body
              /\ error = "none"
              /\ result # None
              /\ fn_ret.body.answer = result["answer"]
              /\ fn_ret.body.references = result["references"]
              /\ fn_ret.body.action_required = result["action_required"]
        /\ error # "none" =>
              /\ result = None
              /\ fn_ret = [status |-> 500,
                           detail |-> "Failed to resolve support ticket"]
        /\ (error = "none" /\ result # None) => fn_ret.status = 200

\* a ticket resolved with four ranked documents and a good assessment,
\* answered without them
C22_Witness ==
    /\ pc = "responded"
    /\ fn_ret.status = 200
    /\ Len(final_docs) = 4
    /\ best_eval.quality = "good"
    /\ DOMAIN result = {"answer", "references", "action_required"}
    /\ DOMAIN fn_ret.body = {"answer", "references", "action_required"}


\* the reference of a document as the documentation and the tests give it:
\* "{category}: {section}", then " | U+00A7 {subsection}" when there is a
\* subsection, then " | file={source_file}"
StatedReference(doc) ==
    LET m == doc.metadata
        category == IF "category" \in DOMAIN m THEN m.category
                    ELSE <<"u", "n", "k", "n", "o", "w", "n">>
        section == IF "section" \in DOMAIN m THEN m.section
                   ELSE <<"U", "n", "k", "n", "o", "w", "n", " ", "D", "o", "c">>
        source_file == IF "source_file" \in DOMAIN m THEN m.source_file
                       ELSE <<"u", "n", "k", "n", "o", "w", "n", "_", "f", "i",
                              "l", "e">>
    IN  category \o <<":", " ">> \o section
        \o (IF "subsection" \in DOMAIN m /\ m.subsection # <<>>
            THEN <<" ", "|", " ", "U+00A7", " ">> \o m.subsection
            ELSE <<>>)
        \o <<" ", "|", " ", "f", "i", "l", "e", "=">> \o source_file

\* C23: format_reference renders "{category}: {section}", then
\* " | U+00A7 {subsection}" only when a subsection is present, then always
\* " | file={source_file}", with the defaults unknown, Unknown Doc and
\* unknown_file; the faqs / Password Reset / Email Flow / faqs/reset.md
\* document gives exactly "faqs: Password Reset | U+00A7 Email Flow |
\* file=faqs/reset.md".
C23_ReferenceFormat ==
    pc = "return_select_top_references" =>
        \A i \in 1..Len(fn_ret) : fn_ret[i] = StatedReference(fn_arg.docs[i])


\* C24: select_top_references(docs, k) returns exactly min(k, len(docs))
\* references (k being a count of references, zero or more), the i-th being
\* the formatted reference of the i-th input document: input order kept,
\* nothing padded, nothing duplicated.
C24_TopReferencesInOrder ==
    pc = "return_select_top_references" =>
        /\ fn_arg.k >= 0 =>
               Len(fn_ret) = (IF fn_arg.k < Len(fn_arg.docs) THEN fn_arg.k
                              ELSE Len(fn_arg.docs))
        /\ Len(fn_ret) <= Len(fn_arg.docs)
        /\ \A i \in 1..Len(fn_ret) :
               fn_ret[i] = format_reference(fn_arg.docs[i])

\* three references returned from four documents whose first and last
\* references differ
C24_Witness ==
    /\ pc = "return_select_top_references"
    /\ fn_arg.k = REFERENCE_K
    /\ Len(fn_arg.docs) = MaxRefDocs
    /\ Len(fn_ret) = REFERENCE_K
    /\ fn_ret[1] = format_reference(fn_arg.docs[1])
    /\ format_reference(fn_arg.docs[1]) # format_reference(fn_arg.docs[MaxRefDocs])
    /\ format_reference(fn_arg.docs[1]) # format_reference(fn_arg.docs[2])


\* the contents of the documents, each trimmed, joined by blank lines
JoinedContents(documents) ==
    join(<<LineBreak, LineBreak>>,
         [i \in 1..Len(documents) |-> strip(documents[i].page_content)])

\* C25: in generate_answer the grounding context is the fallback string
\* "No relevant documentation found." if and only if the document list is
\* empty; whenever at least one document is supplied the context is the
\* documents' trimmed contents joined by blank lines, also when a supplied
\* document's content is empty or whitespace only.
C25_FallbackContextIffNoDocuments ==
    (pc = "return_generate_answer" /\ CallsOf("llm_call") # <<>>) =>
        LET context == CallsOf("llm_call")[1].arg.context
        IN  /\ context = NO_CONTEXT <=> fn_arg.documents = <<>>
            /\ fn_arg.documents # <<>> =>
                   context = JoinedContents(fn_arg.documents)


\* the fixed order of the labels in the prototype mapping
PrototypeOrder ==
    <<"escalate_to_abuse_team", "escalate_to_billing", "escalate_to_technical",
      "escalate_to_support", "customer_action_required", "follow_up_required",
      "none">>

\* the labels whose similarity is the largest one
TiedLabels(max_sims) ==
    {a \in ActionRequired : max_sims[a] = MaxSim(max_sims)}

\* C26: when the largest similarity is positive and at least the threshold,
\* infer_action returns the label that comes first in the prototype order
\* among the labels holding that largest similarity: a later label never
\* displaces an earlier one on an equal score.
C26_FirstTiedLabelWins ==
    (/\ pc = "return_infer_action"
     /\ ~IsBlank(fn_arg.answer)
     /\ MaxSim(fn_arg.max_sims) > 0
     /\ MaxSim(fn_arg.max_sims) >= fn_arg.threshold) =>
        \E i \in 1..Len(PrototypeOrder) :
           /\ fn_ret.action = PrototypeOrder[i]
           /\ PrototypeOrder[i] \in TiedLabels(fn_arg.max_sims)
           /\ \A j \in 1..(i - 1) :
                  PrototypeOrder[j] \notin TiedLabels(fn_arg.max_sims)

\* three or more labels tie at a positive largest similarity that reaches the
\* threshold, the label none among them, and the first of them is returned
C26_Witness ==
    /\ pc = "return_infer_action"
    /\ ~IsBlank(fn_arg.answer)
    /\ MaxSim(fn_arg.max_sims) > 0
    /\ MaxSim(fn_arg.max_sims) >= fn_arg.threshold
    /\ Cardinality(TiedLabels(fn_arg.max_sims)) >= 3
    /\ "none" \in TiedLabels(fn_arg.max_sims)
    /\ "escalate_to_abuse_team" \notin TiedLabels(fn_arg.max_sims)
    /\ fn_ret.action = "escalate_to_billing"


\* C27: resolve_ticket returns action_required = none only if some query's
\* retrieval was assessed good; when no query is assessed good, also when
\* every query is assessed partially good, the aggregate assessment stays
\* poor and the returned action is never none.
C27_NoneOnlyOnGoodRetrieval ==
    pc = "done" =>
        /\ result["action_required"] = "none"
              => \E i \in 1..Len(per_query) : Verdicts[i].quality = "good"
        /\ (\A i \in 1..Len(per_query) : Verdicts[i].quality # "good")
              => /\ best_eval.quality = "poor"
                 /\ result["_retrieval_eval"].quality = "poor"
                 /\ result["action_required"] # "none"

\* two queries, both assessed partially good, no action inferred from the
\* answer: the aggregate is poor and the action returned is follow_up_required
C27_Witness ==
    /\ pc = "done"
    /\ Len(per_query) >= 2
    /\ \A i \in 1..Len(per_query) : Verdicts[i].quality = "partially good"
    /\ generated.action_required = "none"
    /\ result["_retrieval_eval"].quality = "poor"
    /\ result["action_required"] = "follow_up_required"


\* C28: every string returned by rewrite_ticket is non-empty and has no
\* leading or trailing whitespace; in resolve_ticket the queries are those
\* strings or, when there are none, the ticket, which is not blank; so every
\* query handed to retrieve_documents is non-blank, resolve_ticket never
\* fails with the blank-query error, and between 1 and 5 queries are
\* retrieved.
C28_QueriesNonBlank ==
    /\ (pc = "return_rewrite_ticket" /\ fn_ret.error = "none") =>
           \A i \in 1..Len(fn_ret.value) :
              /\ fn_ret.value[i] # <<>>
              /\ fn_ret.value[i] = strip(fn_ret.value[i])
    /\ pc \in {"retrieve", "generate", "done"} =>
           /\ Len(queries) >= 1
           /\ Len(queries) <= 5
           /\ \A i \in 1..Len(rewritten) :
                 /\ rewritten[i] # <<>>
                 /\ rewritten[i] = strip(rewritten[i])
           /\ rewritten # <<>> => queries = rewritten
           /\ rewritten = <<>> => (queries = <<ticket>> /\ ~IsBlank(ticket))
           /\ \A i \in 1..Len(RetrievedQueries) :
                 /\ ~IsBlank(RetrievedQueries[i])
                 /\ RetrievedQueries[i] = queries[i]
    /\ pc \in {"generate", "done"} =>
           /\ Len(RetrievedQueries) = Len(queries)
           /\ Len(RetrievedQueries) \in 1..5
    /\ pc = "failed" => error # "Query must be a non-empty string"

\* the rewriter returned nothing and the ticket, which starts with a space,
\* was retrieved as the only query
C28_Witness ==
    /\ pc = "done"
    /\ rewritten = <<>>
    /\ ticket # strip(ticket)
    /\ RetrievedQueries = <<ticket>>


\* the scores of the documents kept by retrieve_documents, in their order
KeptScores ==
    [i \in 1..Len(fn_ret.value[1]) |->
        fn_ret.value[1][i].metadata["relevance_score"]]

\* the documents kept by retrieve_documents carry non-increasing scores taken
\* from the candidates, and the assessment agrees with them: its top score is
\* the largest kept score, its gap is that of the first two kept scores and
\* is not negative, num_results is the number of kept documents, and (for
\* final_k >= 1) the assessment is the no_documents_retrieved one exactly when
\* the vector store returned no candidate
EvaluatorInputsAgree ==
    LET docs == fn_ret.value[1]
        ev == fn_ret.value[2]
    IN  /\ \A i \in 1..(Len(docs) - 1) : KeptScores[i] >= KeptScores[i + 1]
        /\ \A i \in 1..Len(docs) :
               \E j \in 1..Len(fn_arg.docs) :
                  /\ docs[i].page_content = fn_arg.docs[j].page_content
                  /\ KeptScores[i] = fn_arg.scores[j]
        /\ docs # <<>> =>
               /\ ev.num_results = Len(docs)
               /\ ev.top_relevance_score
                     = Round3(Max({KeptScores[i] : i \in 1..Len(docs)}), 1)
               /\ Len(docs) >= 2 =>
                     /\ ev.score_gap >= 0
                     /\ ev.score_gap
                           = Round3(KeptScores[1] - KeptScores[2], 1)
        /\ docs = <<>> =>
               ev = [quality |-> "poor", reason |-> "no_documents_retrieved"]
        /\ fn_arg.top_k >= 1 =>
               ("reason" \in DOMAIN ev <=> fn_arg.docs = <<>>)

\* C29: the documents kept by retrieve_documents carry non-increasing scores
\* and the assessment agrees with them: its top score is the largest kept
\* score, its gap is that of the first two kept scores and is not negative,
\* num_results is the number of kept documents and at most final_k (final_k
\* being a count of documents, zero or more), and (for final_k >= 1) the
\* assessment is the no_documents_retrieved one exactly when the vector store
\* returned no candidate.
C29_EvaluatorPrecondition ==
    (pc = "return_retrieve_documents" /\ fn_ret.error = "none") =>
        /\ fn_arg.top_k >= 0 => Len(fn_ret.value[1]) <= fn_arg.top_k
        /\ EvaluatorInputsAgree

\* three candidates whose scores rise along the list, two kept: the kept
\* scores fall, and the gap is positive
C29_Witness ==
    /\ pc = "return_retrieve_documents"
    /\ fn_ret.error = "none"
    /\ Len(fn_arg.docs) = 3
    /\ fn_arg.top_k = 2
    /\ fn_arg.scores[1] < fn_arg.scores[2]
    /\ fn_arg.scores[2] < fn_arg.scores[3]
    /\ fn_ret.value[2].num_results = 2
    /\ fn_ret.value[2].score_gap > 0


\* the position in all_docs (the kept documents of all queries, in query
\* order) where a content is first, and last, seen
FirstSeen(content) ==
    CHOOSE i \in 1..Len(all_docs) :
        /\ all_docs[i].page_content = content
        /\ \A j \in 1..(i - 1) : all_docs[j].page_content # content

LastSeen(content) ==
    CHOOSE i \in 1..Len(all_docs) :
        /\ all_docs[i].page_content = content
        /\ \A j \in (i + 1)..Len(all_docs) : all_docs[j].page_content # content

\* C30: the final documents, which resolve_ticket hands to generation and
\* returns as _reranked_docs, are at most 4, of pairwise distinct content,
\* each one a document kept by the reranker for some query, in non-increasing
\* relevance_score order; documents of equal relevance_score stand in the
\* order in which their content was first seen across the queries.
C30_FinalDocuments ==
    pc = "done" =>
        /\ result["_reranked_docs"] = final_docs
        /\ Len(final_docs) <= 4
        /\ \A i \in 1..Len(final_docs) :
              /\ \E q \in 1..Len(per_query) :
                    \E k \in 1..Len(per_query[q][1]) :
                       per_query[q][1][k] = final_docs[i]
              /\ "relevance_score" \in DOMAIN final_docs[i].metadata
        /\ \A i, j \in 1..Len(final_docs) :
              i < j =>
                 /\ final_docs[i].page_content # final_docs[j].page_content
                 /\ final_docs[i].metadata["relevance_score"]
                       >= final_docs[j].metadata["relevance_score"]
                 /\ final_docs[i].metadata["relevance_score"]
                       = final_docs[j].metadata["relevance_score"]
                    => FirstSeen(final_docs[i].page_content)
                          < FirstSeen(final_docs[j].page_content)

\* two final documents of equal score, the one first seen earlier also last
\* seen later: it stands first
C30_Witness ==
    /\ pc = "done"
    /\ Len(final_docs) = 4
    /\ \E i, j \in 1..Len(final_docs) :
          /\ i < j
          /\ final_docs[i].metadata["relevance_score"]
                = final_docs[j].metadata["relevance_score"]
          /\ LastSeen(final_docs[i].page_content)
                > LastSeen(final_docs[j].page_content)

====
